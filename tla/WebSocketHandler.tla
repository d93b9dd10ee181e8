---------------------------- MODULE WebSocketHandler ----------------------------
(***************************************************************************)
(* WebSocketHandler between a TCP connection and the application: the      *)
(* client sends a request that ends with a blank line and then frames, the *)
(* handler is called when there is something to read and reads as many     *)
(* bytes as there are, in pieces nobody promises to be whole requests or   *)
(* frames.                                                                 *)
(*                                                                         *)
(* A request is three bytes, of which the last two are the blank line, and *)
(* a frame four: an opening byte, two of text, a closing byte.  The second *)
(* of the text is the frame's number; the first is, too, except in the     *)
(* frames of NulFrames, whose text begins with the character U+0000: its   *)
(* byte is the one that opens a frame.                                     *)
(***************************************************************************)
EXTENDS Integers, Sequences, SequencesExt

CONSTANTS
  BUFFER_SIZE,
  MaxFrames,   \* frames the client sends
  NulFrames    \* those whose text begins with U+0000

ASSUME BufferAssumption == BUFFER_SIZE \in Nat \ {0}
\* What a frame says is a byte, and not the one that closes it.
ASSUME MaxFramesAssumption == MaxFrames \in 0 .. 254
ASSUME NulFramesAssumption == NulFrames \subseteq 1 .. MaxFrames

Opening == 0
Closing == 255
Header == 300
BlankLine == <<301, 302>>

Request == <<Header>> \o BlankLine
Lead(k) == IF k \in NulFrames THEN Opening ELSE k
Text(k) == <<Lead(k), k>>
Frame(k) == <<Opening, Lead(k), k, Closing>>

\* What memory may hold that was never written: a number no frame has, too.
Garbage == {Opening, Closing, MaxFrames + 1}

VARIABLES
  asked,          \* the client has sent its request
  sent,           \* the frames it has sent
  wire,           \* the bytes that were not read yet
  buffer,         \* the buffer, which keeps what earlier calls read
  sentHandshake,
  gotHandshake,
  readyState,
  received,       \* history: the arguments of onmessage()
  early,          \* history: how many were received with the request
  split           \* history: the blank line was read in two pieces

handlerVars == <<buffer, sentHandshake, gotHandshake, readyState, received, early, split>>
wsVars == <<asked, sent, wire, handlerVars>>

-----------------------------------------------------------------------------
(* The client.                                                             *)

Ask ==
  /\ ~ asked
  /\ asked' = TRUE
  /\ wire' = wire \o Request
  /\ UNCHANGED <<sent, handlerVars>>

SendFrame ==
  /\ asked /\ sent < MaxFrames
  /\ sent' = sent + 1
  /\ wire' = wire \o Frame(sent')
  /\ UNCHANGED <<asked, handlerVars>>

-----------------------------------------------------------------------------
(* The handler.                                                            *)

\* The frames in a sequence of bytes, as the loop of onReadable() finds them.
Frames(bytes) ==
  FoldLeft(LAMBDA r, b :
             IF ~ r.begun /\ b = Opening THEN [ r EXCEPT !.begun = TRUE, !.frame = <<>> ]
             ELSE IF r.begun /\ b = Closing
             THEN [ r EXCEPT !.begun = FALSE, !.found = Append(@, r.frame) ]
             ELSE IF r.begun THEN [ r EXCEPT !.frame = Append(@, b) ]
             ELSE r,
           [ begun |-> FALSE, frame |-> <<>>, found |-> <<>> ], bytes).found

\* Where the blank line ends in a sequence of bytes, 0 if it has none.
EndOfRequest(bytes) ==
  LET ends == { i \in 2 .. Len(bytes) : SubSeq(bytes, i - 1, i) = BlankLine }
  IN  IF ends = {} THEN 0 ELSE CHOOSE i \in ends : TRUE

\* Mutation: the whole buffer is scanned, whatever was read.
ScannedWhole(start, n, beyond) == buffer'

\* Mutation: the last byte is left out.
ScannedShort(start, n, beyond) ==
  [ i \in 1 .. n - 1 |-> (buffer' \o beyond)[start + i] ]

\* onReadable() scans as many bytes as it has read, starting behind the
\* request: the last of them were not read, and may lie beyond the buffer.
Scanned(start, n, beyond) ==
  [ i \in 1 .. n |-> (buffer' \o beyond)[start + i] ]

Buffered(n) == SubSeq(wire, 1, n) \o SubSeq(buffer, n + 1, BUFFER_SIZE)

Opens(n) == ~ gotHandshake /\ EndOfRequest(SubSeq(wire, 1, n)) # 0

\* The answer is sent when the first bytes come, whatever they are.
OnReadable(n, beyond) ==
  /\ readyState # "CLOSED"
  /\ buffer' = Buffered(n)
  /\ wire' = SubSeq(wire, n + 1, Len(wire))
  /\ sentHandshake' = TRUE
  /\ gotHandshake' = (gotHandshake \/ Opens(n))
  /\ readyState' = IF Opens(n) THEN "OPEN" ELSE readyState
  /\ LET start == IF gotHandshake THEN 0 ELSE EndOfRequest(SubSeq(wire, 1, n))
         found == IF gotHandshake' THEN Frames(Scanned(start, n, beyond)) ELSE <<>>
     IN  /\ received' = received \o found
         /\ early' = IF Opens(n) THEN Len(received') ELSE early
  /\ split' = (split \/ wire[n] = BlankLine[1])
  /\ UNCHANGED <<asked, sent>>

\* The reactor is stopped; the handler deletes itself.
OnShutdown ==
  /\ readyState # "CLOSED"
  /\ readyState' = "CLOSED"
  /\ UNCHANGED <<asked, sent, wire, buffer, sentHandshake, gotHandshake, received, early, split>>

WsInit ==
  /\ asked = FALSE /\ sent = 0 /\ wire = <<>>
  /\ buffer \in [1 .. BUFFER_SIZE -> Garbage]
  /\ sentHandshake = FALSE /\ gotHandshake = FALSE
  /\ readyState = "CONNECTING"
  /\ received = <<>> /\ early = 0 /\ split = FALSE

\* The bytes beyond the buffer matter to the call that finds the request.
WsNext ==
  \/ Ask \/ SendFrame \/ OnShutdown
  \/ \E n \in 1 .. BUFFER_SIZE :
       /\ n <= Len(wire)
       /\ \E beyond \in IF Opens(n) THEN [1 .. BUFFER_SIZE -> Garbage] ELSE {<<>>} :
            OnReadable(n, beyond)

WsSpec == WsInit /\ [][WsNext]_wsVars

-----------------------------------------------------------------------------
(* Properties.                                                             *)

\* Types; an open connection has been answered.
WsTypeOK ==
  /\ sent \in 0 .. MaxFrames
  /\ buffer \in Seq(0 .. 302) /\ Len(buffer) = BUFFER_SIZE
  /\ gotHandshake => sentHandshake
  /\ readyState = "OPEN" => gotHandshake
  /\ early \in 0 .. Len(received)

\* What onmessage() may get of a frame: its text or, when a read begins
\* behind the opening byte and before a U+0000, what follows that.
Deliveries(k) == {Text(k)} \cup (IF k \in NulFrames THEN {<<k>>} ELSE {})

\* Once the connection is open, what onmessage() gets are texts of frames of
\* the client, in their order and each at most once, however the bytes were
\* cut: whole, except for those that hold a U+0000, of which a cut may leave
\* the end.  The call that finds the request is left out: it scans bytes it
\* has not read.
MessagesAreFrames ==
  \A i \in early + 1 .. Len(received) :
    \E k \in 1 .. sent :
      /\ received[i] \in Deliveries(k)
      /\ i > early + 1 => \E j \in 1 .. k - 1 : received[i - 1] \in Deliveries(j)

\* A frame that is read in one piece is not lost, nor cut, even when the
\* piece begins or ends in the middle of other frames: those are lost.
WholeFramesArrive ==
  [][ \A k \in 1 .. MaxFrames :
        /\ gotHandshake /\ Len(wire') < Len(wire)
        /\ \E i \in 1 .. Len(wire) - Len(wire') - 3 : SubSeq(wire, i, i + 3) = Frame(k)
        => \E i \in Len(received) + 1 .. Len(received') : received'[i] = Text(k) ]_wsVars

\* A request that was read completely opens the connection, in whatever
\* pieces it came, as long as the blank line is not cut: then the connection
\* never opens.
RequestIsSeen ==
  /\ asked /\ ~ split /\ readyState # "CLOSED"
  /\ ~ \E i \in 1 .. Len(wire) : wire[i] = BlankLine[2]
  => gotHandshake

\* What the handler makes of the stream.
StreamIsRead == RequestIsSeen /\ MessagesAreFrames
=============================================================================
