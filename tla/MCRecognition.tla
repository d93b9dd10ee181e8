---------------------------- MODULE MCRecognition ----------------------------
(***************************************************************************)
(* What becomes of an image, step by step and each step alone: the regions *)
(* of its pixels, the symbols among the regions, the names of the symbols, *)
(* and the fingers among the bright regions.  `part` says which step a     *)
(* behaviour is about, and the variables of the others rest.               *)
(***************************************************************************)
EXTENDS Segmenter, FingerTracker

VARIABLES
  part,
  adjacent, flag, pending, at, traversed, descendent_count, depth,
  children_visited, candidates, parentOf,                          \* roots
  seen, before                                                     \* strings

\* Next to the image the configuration describes, a wide one with little room
\* for the neighbours of a region, a narrow one whose lists are never full.
Thin == INSTANCE Segmenter WITH Width <- 3, Height <- 4, MaxAdjacent <- 10

Roots == INSTANCE SymbolRoots WITH
  MaxRegions <- 6, MaxSpoilt <- 2, MinCount <- 2, MaxCount <- 3, MinDepth <- 1, MaxDepth <- 2

Strings == INSTANCE DepthStrings WITH MaxNodes <- 5

\* Points around a finger, within reach of it, and out of its reach.
Places == {<<0, 0>>, <<2, 0>>, <<3, 3>>, <<0, 20>>}

symbolVars ==
  <<adjacent, flag, pending, at, traversed, descendent_count, depth,
    children_visited, candidates, parentOf>>
stringVars == <<seen, before>>
mcVars == <<part, segVars, symbolVars, stringVars, fingerVars>>

-----------------------------------------------------------------------------
(* The steps at rest: no pixel read, no region, a tree of one node.        *)

SymbolsRest ==
  /\ adjacent = <<>> /\ flag = <<>> /\ pending = {} /\ at = 0 /\ traversed = {}
  /\ descendent_count = <<>> /\ depth = <<>> /\ children_visited = <<>>
  /\ candidates = <<>> /\ parentOf = <<>>

StringsRest == seen = <<0>> /\ before = <<0>>

RecognitionInit ==
  \/ /\ part \in {"thin", "wide"} /\ SegInit
     /\ SymbolsRest /\ StringsRest /\ FingersInit
  \/ /\ part = "roots" /\ Roots!RootsInit
     /\ SegInit /\ StringsRest /\ FingersInit
  \/ /\ part = "strings" /\ Strings!StringsInit
     /\ SegInit /\ SymbolsRest /\ FingersInit
  \/ /\ part = "fingers" /\ FingersInit
     /\ SegInit /\ SymbolsRest /\ StringsRest

ThinStep ==
  /\ part = "thin" /\ Thin!SegNext
  /\ UNCHANGED <<part, symbolVars, stringVars, fingerVars>>

WideStep ==
  /\ part = "wide" /\ SegNext
  /\ UNCHANGED <<part, symbolVars, stringVars, fingerVars>>

RootsStep ==
  /\ part = "roots" /\ Roots!RootsNext
  /\ UNCHANGED <<part, segVars, stringVars, fingerVars>>

StringsStep ==
  /\ part = "strings" /\ Strings!NextFrame
  /\ UNCHANGED <<part, segVars, symbolVars, fingerVars>>

FingersStep ==
  /\ part = "fingers" /\ FingersNext
  /\ UNCHANGED <<part, segVars, symbolVars, stringVars>>

RecognitionNext ==
  ThinStep \/ WideStep \/ RootsStep \/ StringsStep \/ FingersStep

RecognitionSpec == RecognitionInit /\ [][RecognitionNext]_mcVars

-----------------------------------------------------------------------------
(* Properties: those of the modules, of the step they are about.           *)

\* Two pixels are in one region exactly when they are connected, no region is
\* freed while it is used, and the box of a region is that of its pixels.
RegionsAreExact ==
  part = "thin" => Thin!SegTypeOK /\ Thin!RegionsAreComponents /\ Thin!BoxesAreExact

\* Lists that fill up stay mutual, and a region without flags has lost none
\* of its neighbours.
AdjacencyIsSound ==
  part = "wide" => SegTypeOK /\ AdjacencyIsMutual /\ LossesAreFlagged

\* "merge r2 into r1 by first removing all common adjacencies from r2": no
\* region lists another one twice.  This is what the comment says of the code.
CommonAdjacenciesAreRemoved ==
  part = "wide" => NoneIsListedTwice

\* A region that is climbed to has one entry left to climb to, the counts are
\* those of all that hangs on it, and in the end every symbol whose regions
\* list no neighbour twice is found.
SymbolsAreFound ==
  part = "roots" =>
    /\ Roots!RootsTypeOK /\ Roots!OneParentIsLeft
    /\ Roots!CountsAreOfSubtrees /\ Roots!SymbolsAreFound

\* Two symbols have one name exactly when their trees are alike.
StringsTellTrees == part = "strings" => Strings!StringsTellTrees
=============================================================================
