----------------------------- MODULE Remote_proofs -----------------------------
(***************************************************************************)
(* The properties of the run of MCRemoteControl, for any number of         *)
(* sessions, fingers and frames: the remote control and the finger ids     *)
(* keep the invariants that RemoteControl_proofs proves of them, and so    *)
(* does the client with both profiles, with the bounds it has there.       *)
(***************************************************************************)
EXTENDS MCRemoteControl, RemoteControl_proofs

\* The theorems about the client, with the constants of Both.
Duo == INSTANCE RemoteControl_proofs WITH
  Profiles <- {"cur", "obj"}, MaxSeen <- 1, MaxFrame <- 3, MaxRestarts <- 1,
  MaxInFlight <- 2

\* What the theorems assume of the constants holds of these.
LEMMA DuoIsAssumed ==
  /\ Duo!IsFiniteSet(Sessions)
  /\ MaxFingers \in Nat \ {0} /\ MaxCopies \in Nat \ {0}
  /\ {"cur", "obj"} \subseteq {"cur", "obj"} /\ 1 \in 1 .. MaxFingers
  /\ 3 \in Nat /\ 1 \in Nat /\ 2 \in Nat \ {0}
<1>1. Duo!IsFiniteSet(Sessions)
  BY SessionsAssumption DEF Duo!IsFiniteSet, IsFiniteSet
<1>2. QED
  BY <1>1, MaxFingersAssumption, MaxCopiesAssumption

-----------------------------------------------------------------------------
(* Both is Duo: the definitions of both are those of TuioClient, with the  *)
(* same constants.                                                         *)

LEMMA FoldsAreTheSame ==
  /\ \A f : /\ Both!Listed(f) = Duo!Listed(f) /\ Both!Used(f) = Duo!Used(f)
            /\ Both!Free(f) = Duo!Free(f) /\ Both!LeavesIdsBehind(f) = Duo!LeavesIdsBehind(f)
  /\ \A f, s : Both!Removed(f, s) = Duo!Removed(f, s) /\ Both!Added(f, s) = Duo!Added(f, s)
  /\ \A S : Both!SetToSeqs(S) = Duo!SetToSeqs(S) /\ Both!Cardinality(S) = Duo!Cardinality(S)
  /\ \A q : Both!ToSet(q) = Duo!ToSet(q)
  /\ \A order : Both!RemovedInTurn(order) = Duo!RemovedInTurn(order)
<1>1. /\ \A f : /\ Both!Listed(f) = Duo!Listed(f) /\ Both!Used(f) = Duo!Used(f)
                /\ Both!Free(f) = Duo!Free(f)
                /\ Both!LeavesIdsBehind(f) = Duo!LeavesIdsBehind(f)
  BY DEF Both!Listed, Duo!Listed, Both!Used, Duo!Used, Both!Free, Duo!Free, Both!Ids, Duo!Ids,
         Both!LeavesIdsBehind, Duo!LeavesIdsBehind
<1>2. \A S : Both!SetToSeqs(S) = Duo!SetToSeqs(S) /\ Both!Cardinality(S) = Duo!Cardinality(S)
  BY DEF Both!SetToSeqs, Duo!SetToSeqs, Both!Cardinality, Duo!Cardinality
<1>3. \A f, s : Both!Removed(f, s) = Duo!Removed(f, s)
  BY <1>1 DEF Both!Removed, Duo!Removed, Both!Without, Duo!Without, Both!LargestOf, Duo!LargestOf,
         Both!Listed, Duo!Listed, Both!Used, Duo!Used, Both!Free, Duo!Free, Both!Ids, Duo!Ids,
         Both!Max, Duo!Max
<1>4. \A f, s : Both!Added(f, s) = Duo!Added(f, s)
  BY <1>1, <1>2 DEF Both!Added, Duo!Added, Both!With, Duo!With, Both!Listed, Duo!Listed,
         Both!Free, Duo!Free, Both!Ids, Duo!Ids
<1>5. \A q : Both!ToSet(q) = Duo!ToSet(q)
  BY DEF Both!ToSet, Duo!ToSet
<1>6. \A order : Both!RemovedInTurn(order) = Duo!RemovedInTurn(order)
  BY DEF Both!RemovedInTurn, Duo!RemovedInTurn, Both!FoldLeft, Duo!FoldLeft,
     Both!MapThenFoldSet, Duo!MapThenFoldSet, Both!Removed, Duo!Removed, Both!Without,
     Duo!Without, Both!LargestOf, Duo!LargestOf, Both!Listed, Duo!Listed, Both!Used, Duo!Used,
     Both!Free, Duo!Free, Both!Ids, Duo!Ids, Both!Max, Duo!Max, Both!LeavesIdsBehind,
     Duo!LeavesIdsBehind
<1>7. QED
  BY <1>1, <1>2, <1>3, <1>4, <1>5, <1>6

\* The tracker, the network and the calls of the application.
LEMMA TrackersAreTheSame ==
  /\ \A p, now, moved, copies :
       Both!Send(p, now, moved, copies) <=> Duo!Send(p, now, moved, copies)
  /\ Both!RestartTracker <=> Duo!RestartTracker
  /\ \A b : Both!Lose(b) <=> Duo!Lose(b)
  /\ \A b, order : Both!Deliver(b, order) <=> Duo!Deliver(b, order)
  /\ Both!GetMessage <=> Duo!GetMessage
  /\ Both!NoMoreMessages <=> Duo!NoMoreMessages
<1>1. \A p, s : Both!Fresh(p, s) <=> Duo!Fresh(p, s)
  BY FoldsAreTheSame
     DEF Both!Fresh, Duo!Fresh
<1>2. ASSUME NEW p, NEW now, NEW moved, NEW copies
      PROVE  Both!Send(p, now, moved, copies) <=> Duo!Send(p, now, moved, copies)
  BY <1>1, FoldsAreTheSame
     DEF Both!Send, Duo!Send, Both!clientVars, Duo!clientVars
<1>3. Both!RestartTracker <=> Duo!RestartTracker
  BY DEF Both!RestartTracker, Duo!RestartTracker, Both!clientVars, Duo!clientVars
<1>4. \A b : Both!Lose(b) <=> Duo!Lose(b)
  BY DEF Both!Lose, Duo!Lose, Both!clientVars, Duo!clientVars
<1>5. \A b, order : Both!Deliver(b, order) <=> Duo!Deliver(b, order)
  BY DEF Both!Deliver, Duo!Deliver, Both!MessagesOf, Duo!MessagesOf
<1>6. /\ Both!GetMessage <=> Duo!GetMessage
      /\ Both!NoMoreMessages <=> Duo!NoMoreMessages
  BY DEF Both!GetMessage, Duo!GetMessage, Both!NoMoreMessages, Duo!NoMoreMessages,
         Both!trackerVars, Duo!trackerVars
<1>7. QED
  BY <1>1, <1>2, <1>3, <1>4, <1>5, <1>6

\* The handlers of the messages.
LEMMA HandlersAreTheSame == Both!Handle <=> Duo!Handle
<1>1. Both!Outdated <=> Duo!Outdated
  BY DEF Both!Outdated, Duo!Outdated
<1>2. \A m : Both!HandleAlive(m) <=> Duo!HandleAlive(m)
  BY FoldsAreTheSame
     DEF Both!HandleAlive, Duo!HandleAlive
<1>3. \A m : Both!HandleSet(m) <=> Duo!HandleSet(m)
  BY FoldsAreTheSame
     DEF Both!HandleSet, Duo!HandleSet
<1>4. \A m : Both!HandleFseq(m) <=> Duo!HandleFseq(m)
  BY DEF Both!HandleFseq, Duo!HandleFseq
<1>5. QED
  BY <1>1, <1>2, <1>3, <1>4
     DEF Both!Handle, Duo!Handle, Both!trackerVars, Duo!trackerVars

LEMMA BothIsDuo ==
  /\ Both!TuioInit <=> Duo!TuioInit
  /\ [Both!TuioNext]_(Both!tuioVars) <=> [Duo!TuioNext]_(Duo!tuioVars)
  /\ Both!TuioTypeOK <=> Duo!TuioTypeOK
  /\ Both!ListedIsAlive <=> Duo!ListedIsAlive
<1>1. Both!TuioInit <=> Duo!TuioInit
  BY DEF Both!TuioInit, Duo!TuioInit, Both!IdsInit, Duo!IdsInit, Both!NoFingers, Duo!NoFingers,
         Both!Ids, Duo!Ids
<1>2. UNCHANGED Both!tuioVars <=> UNCHANGED Duo!tuioVars
  BY DEF Both!clientVars, Duo!clientVars, Both!trackerVars, Duo!trackerVars, Both!tuioVars,
         Duo!tuioVars
<1>3. Both!TuioNext <=> Duo!TuioNext
  <2>1. ASSUME NEW p, NEW now, NEW copies
        PROVE  (\E moved \in SUBSET now : Both!Send(p, now, moved, copies))
                 <=> \E moved \in SUBSET now : Duo!Send(p, now, moved, copies)
    BY TrackersAreTheSame
  <2>2. (\E b \in network : Both!Lose(b)) <=> \E b \in network : Duo!Lose(b)
    BY TrackersAreTheSame
  <2>3. (\E b \in network : \E order \in Both!SetToSeqs(b.set) : Both!Deliver(b, order))
          <=> \E b \in network : \E order \in Duo!SetToSeqs(b.set) : Duo!Deliver(b, order)
    BY FoldsAreTheSame, TrackersAreTheSame
  <2>4. (\E p \in {"cur", "obj"}, now \in SUBSET Sessions, copies \in 1 .. 2 :
           \E moved \in SUBSET now : Both!Send(p, now, moved, copies))
          <=> \E p \in {"cur", "obj"}, now \in SUBSET Sessions, copies \in 1 .. 2 :
                \E moved \in SUBSET now : Duo!Send(p, now, moved, copies)
    BY <2>1
  <2>5. Both!Tracker <=> Duo!Tracker
    BY <2>2, <2>3, <2>4, TrackersAreTheSame DEF Both!Tracker, Duo!Tracker
  <2>6. QED
    BY <2>5, TrackersAreTheSame, HandlersAreTheSame DEF Both!TuioNext, Duo!TuioNext
<1>4. Both!TuioTypeOK <=> Duo!TuioTypeOK
  BY FoldsAreTheSame
     DEF Both!TuioTypeOK, Duo!TuioTypeOK, Both!FingersTypeOK, Duo!FingersTypeOK, Both!Ids,
         Duo!Ids
<1>5. Both!ListedIsAlive <=> Duo!ListedIsAlive
  BY FoldsAreTheSame
     DEF Both!ListedIsAlive, Duo!ListedIsAlive
<1>6. QED
  BY <1>1, <1>2, <1>3, <1>4, <1>5

\* The ids are those of all parts.
LEMMA SameIds == Duo!IdsAreDealtOnce <=> IdsAreDealtOnce
<1>1. \A S : Duo!Cardinality(S) = Cardinality(S)
  BY DEF Duo!Cardinality, Cardinality, Duo!IsFiniteSet, IsFiniteSet
<1>2. \A S : Duo!LargestOf(S) = LargestOf(S)
  BY DEF Duo!LargestOf, LargestOf, Duo!Max, Max
<1>3. \A f : Duo!Listed(f) = Listed(f) /\ Duo!Used(f) = Used(f) /\ Duo!Free(f) = Free(f)
  BY DEF Duo!Listed, Listed, Duo!Used, Used, Duo!Free, Free, Duo!Ids, Ids
<1>4. Duo!Ids = Ids
  BY DEF Duo!Ids, Ids
<1>5. QED
  BY <1>1, <1>2, <1>3, <1>4 DEF Duo!IdsAreDealtOnce, IdsAreDealtOnce

-----------------------------------------------------------------------------
(* The invariants of the parts.                                            *)

RemoteRunInv ==
  /\ part \in {"remote", "profiles", "ids"}
  /\ part = "remote" => TuioInv /\ TrackerOK /\ GestureInv
  /\ part = "profiles" => Duo!TuioInv /\ Duo!TrackerOK /\ jumped = FALSE
  /\ part = "ids" => IdsInv /\ inOrder = 0 /\ jumped = FALSE

LEMMA RemoteRunInit == ControlInit => RemoteRunInv
<1>1. RemoteInit => TuioInv /\ TrackerOK /\ GestureInv
  BY TuioInitInv, TrackerInitOK, GestureInitInv DEF RemoteInit
<1>2. Both!TuioInit => Duo!TuioInv /\ Duo!TrackerOK
  BY BothIsDuo, Duo!TuioInitInv, Duo!TrackerInitOK, DuoIsAssumed
<1>3. TuioInit => IdsInv /\ inOrder = 0
  BY IdsInitInv DEF TuioInit
<1>4. QED
  BY <1>1, <1>2, <1>3 DEF ControlInit, GestureRests, RemoteRunInv

\* A step is one of the part that the behaviour is about.
LEMMA EachPartSteps ==
  ASSUME [ControlNext]_mcVars, part \in {"remote", "profiles", "ids"}
  PROVE  /\ part' = part
         /\ part = "remote" => [RemoteNext]_remoteVars
         /\ part = "profiles" =>
              [Both!TuioNext]_(Both!tuioVars) /\ UNCHANGED gestureVars
         /\ part = "ids" => [IdsNext]_idVars /\ UNCHANGED <<inOrder, gestureVars>>
<1>1. CASE UNCHANGED mcVars
  BY <1>1 DEF mcVars, remoteVars, tuioVars, clientVars, trackerVars, gestureVars, idVars,
              Both!tuioVars, Both!clientVars, Both!trackerVars
<1>2. CASE RemoteStep
  BY <1>2 DEF RemoteStep
<1>3. CASE BothStep
  BY <1>3 DEF BothStep
<1>4. CASE IdsStep
  BY <1>4 DEF IdsStep
<1>5. QED
  BY <1>1, <1>2, <1>3, <1>4 DEF ControlNext

LEMMA RemoteRunStep ==
  ASSUME RemoteRunInv, [ControlNext]_mcVars
  PROVE  RemoteRunInv'
<1>1. part \in {"remote", "profiles", "ids"} /\ part' = part
  BY EachPartSteps DEF RemoteRunInv
<1>2. CASE part = "remote"
  <2>1. TuioInv /\ TrackerOK /\ GestureInv /\ [RemoteNext]_remoteVars
    BY <1>1, <1>2, EachPartSteps DEF RemoteRunInv
  <2>2. TuioInv' /\ TrackerOK' /\ GestureInv'
    BY <2>1, RemoteIsClient, TuioInvStep, TrackerStep, GestureStep
  <2>3. QED
    BY <1>1, <1>2, <2>2 DEF RemoteRunInv
<1>3. CASE part = "profiles"
  <2>1. Duo!TuioInv /\ Duo!TrackerOK /\ [Duo!TuioNext]_(Duo!tuioVars)
    BY <1>1, <1>3, EachPartSteps, BothIsDuo DEF RemoteRunInv
  <2>2. Duo!TuioInv' /\ Duo!TrackerOK'
    BY <2>1, Duo!TuioInvStep, Duo!TrackerStep, DuoIsAssumed
  <2>3. jumped' = FALSE
    BY <1>1, <1>3, EachPartSteps DEF RemoteRunInv, gestureVars
  <2>4. QED
    BY <1>1, <1>3, <2>2, <2>3 DEF RemoteRunInv
<1>4. CASE part = "ids"
  <2>1. /\ IdsInv /\ inOrder = 0 /\ [IdsNext]_idVars /\ inOrder' = inOrder
        /\ jumped' = FALSE
    BY <1>1, <1>4, EachPartSteps DEF RemoteRunInv, gestureVars
  <2>2. IdsInv' /\ inOrder' = 0
    BY <2>1, IdsInvStep
  <2>3. QED
    BY <1>1, <1>4, <2>1, <2>2 DEF RemoteRunInv
<1>5. QED
  BY <1>1, <1>2, <1>3, <1>4

LEMMA RemoteRunHolds == ControlSpec => []RemoteRunInv
BY RemoteRunInit, RemoteRunStep, PTL DEF ControlSpec

-----------------------------------------------------------------------------
(* The properties.                                                         *)

\* For any number of sessions and fingers, whatever the network does: the lists
\* are well typed, and what is listed is alive.
THEOREM ListsStaySound == ControlSpec => []ListsAreSound
<1>1. ASSUME RemoteRunInv PROVE ListsAreSound
  <2>1. part = "remote" => RemoteTypeOK /\ TuioTypeOK /\ ListedIsAlive
    BY <1>1, GestureIsTyped, ClientIsTyped DEF RemoteRunInv, TuioInv, ListsOK
  <2>2. part = "profiles" => Duo!TuioTypeOK /\ Duo!ListedIsAlive
    BY <1>1, Duo!ClientIsTyped, DuoIsAssumed DEF RemoteRunInv, Duo!TuioInv, Duo!ListsOK
  <2>3. part = "profiles" => Both!TuioTypeOK /\ Both!ListedIsAlive
    BY <2>2, BothIsDuo
  <2>4. part = "ids" => FingersTypeOK
    BY <1>1, FingersAreTyped DEF RemoteRunInv
  <2>5. part \in {"remote", "profiles", "ids"}
    BY <1>1 DEF RemoteRunInv
  <2>6. QED
    BY <2>1, <2>3, <2>4, <2>5 DEF ListsAreSound
<1>2. QED
  BY <1>1, RemoteRunHolds, PTL

\* In each part the ids are dealt once while none was left behind.
THEOREM RunDealsOnce == ControlSpec => []IdsAreDealtOnce
<1>1. ASSUME RemoteRunInv PROVE IdsAreDealtOnce
  <2>1. part \in {"remote", "ids"} => IdsAreDealtOnce
    BY <1>1, DealtIsOnce DEF RemoteRunInv, TuioInv, ListsOK
  <2>2. part = "profiles" => Duo!IdsAreDealtOnce
    BY <1>1, Duo!DealtIsOnce, DuoIsAssumed DEF RemoteRunInv, Duo!TuioInv, Duo!ListsOK
  <2>3. Duo!IdsAreDealtOnce <=> IdsAreDealtOnce
    BY SameIds
  <2>4. QED
    BY <1>1, <2>1, <2>2, <2>3 DEF RemoteRunInv
<1>2. QED
  BY <1>1, RemoteRunHolds, PTL

\* A bundle that comes after two in order is applied, with one profile and
\* with two that share the frame number.
THEOREM RunAppliesInOrder == ControlSpec => []InOrderIsApplied
<1>1. ASSUME RemoteRunInv PROVE InOrderIsApplied
  BY <1>1 DEF RemoteRunInv, TuioInv, AppliedOK, Applied, Duo!TuioInv, Duo!AppliedOK,
              Duo!Applied, InOrderIsApplied
<1>2. QED
  BY <1>1, RemoteRunHolds, PTL

\* The pose jumps only where one of the two cursors has the id of a third
\* finger, and not at all where nobody asks for it.
THEOREM RunDoesNotJump == ControlSpec => PairsAreCompared
<1>1. ASSUME RemoteRunInv, [ControlNext]_mcVars
      PROVE  [jumped' => \E s \in Cursors : fingers.cursors[s] > 1]_remoteVars
  <2>1. CASE part = "remote"
    BY <1>1, <2>1, EachPartSteps, JumpsOfThirdOnly DEF RemoteRunInv
  <2>2. CASE part # "remote"
    <3>1. jumped' = FALSE
      BY <1>1, <2>2, EachPartSteps DEF RemoteRunInv, gestureVars
    <3>2. QED
      BY <3>1
  <2>3. QED
    BY <2>1, <2>2
<1>2. QED
  BY <1>1, RemoteRunHolds, PTL DEF ControlSpec, PairsAreCompared
=============================================================================
