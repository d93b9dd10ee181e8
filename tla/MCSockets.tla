------------------------------ MODULE MCSockets ------------------------------
(* The two listeners of the repository, each alone: the OSC receiver with    *)
(* its two threads, and the handler of a WebSocket.  `part` says which of    *)
(* them a behaviour is about, and the variables of the other rest.           *)
EXTENDS OscReceiver, WebSocketHandler

VARIABLE part

mcVars == <<part, oscVars, wsVars>>

WsRests ==
  /\ asked = FALSE /\ sent = 0 /\ wire = <<>> /\ buffer = [ i \in 1 .. BUFFER_SIZE |-> Opening ]
  /\ sentHandshake = FALSE /\ gotHandshake = FALSE /\ readyState = "CONNECTING"
  /\ received = <<>> /\ early = 0 /\ split = FALSE

SocketsInit ==
  \/ part = "osc" /\ OscInit /\ WsRests
  \/ part = "websocket" /\ OscInit /\ WsInit

OscStep == part = "osc" /\ OscNext /\ UNCHANGED <<part, wsVars>>
WsStep == part = "websocket" /\ WsNext /\ UNCHANGED <<part, oscVars>>

\* The fairness of OscSpec, for the behaviours that are about the receiver.
SocketsSpec ==
  /\ SocketsInit /\ [][OscStep \/ WsStep]_mcVars
  /\ SF_oscVars(part = "osc" /\ Listener)
  /\ SF_oscVars(part = "osc" /\ Application)

\* The types of both, and the mutual exclusion at the queue.
SocketsTypeOK == OscTypeOK /\ WsTypeOK
=============================================================================
