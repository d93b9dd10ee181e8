------------------------------ MODULE MessageQueue ------------------------------
(***************************************************************************)
(* What an OSC receiver promises its application: the messages that        *)
(* arrived, each of them once, in the order they arrived in, and none of   *)
(* them held back for ever.  OscReceiver is shown to implement it.         *)
(***************************************************************************)
EXTENDS Naturals, Sequences

VARIABLES
  arrived,    \* how many messages have arrived; they are numbered from 1
  pending,    \* the messages the application has not been handed
  delivered   \* how many it has been handed

queueVars == <<arrived, pending, delivered>>

Arrive ==
  /\ arrived' = arrived + 1
  /\ pending' = Append(pending, arrived')
  /\ UNCHANGED delivered

HandOver ==
  /\ pending # <<>>
  /\ Head(pending) = delivered + 1
  /\ pending' = Tail(pending)
  /\ delivered' = delivered + 1
  /\ UNCHANGED arrived

QueueInit == arrived = 0 /\ pending = <<>> /\ delivered = 0

\* Nothing lost, doubled or reordered.
QueueSafety == QueueInit /\ [][Arrive \/ HandOver]_queueVars

\* Nor held back.
QueueSpec == QueueSafety /\ WF_queueVars(HandOver)
=============================================================================
