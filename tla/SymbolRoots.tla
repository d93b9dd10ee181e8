----------------------------- MODULE SymbolRoots -----------------------------
(***************************************************************************)
(* The search for symbols in the regions of a frame: find_roots() starts   *)
(* at every leaf and climbs as long as it can tell which neighbour is the  *)
(* parent, counting descendants and depth.  A region whose count and depth *)
(* are those of the known trees is a candidate.                            *)
(*                                                                         *)
(* The regions and their neighbours are what the segmenter left: regions   *)
(* of two colours, of which only those of different colours touch, in any  *)
(* order.  A merge of the segmenter may leave a neighbour twice in a list, *)
(* and then both of the regions list each other twice; the code counts the *)
(* entries of a list, so a list is a bag here.  A saturated region has no  *)
(* neighbours and is left out.                                             *)
(***************************************************************************)
EXTENDS Integers, Sequences, Bags, FiniteSets, FiniteSetsExt

CONSTANTS
  MaxRegions,          \* regions of a frame
  MaxSpoilt,           \* regions that are fragmented or touch the edges, and
                       \* pairs of regions that list each other twice
  MinCount, MaxCount,  \* min_ and max_target_root_descendent_count
  MinDepth, MaxDepth   \* of the known trees

Regions == 1 .. MaxRegions
NoRegion == 0
Uncounted == 32767     \* 0x7FFF, what the segmenter sets

VARIABLES
  adjacent,          \* the list of each region, a bag of its neighbours
  flag,              \* none, root (it touches the edges) or fragmented
  pending,           \* the leaves the loop of find_roots() has not come to
  at,                \* the region the recursion has reached
  traversed,         \* the regions whose level is TRAVERSED
  descendent_count,
  depth,
  children_visited,  \* children_visited_count
  candidates,        \* root_regions_head
  parentOf           \* history: the neighbour a region was climbed to from

rootVars ==
  <<adjacent, flag, pending, at, traversed, descendent_count, depth,
    children_visited, candidates, parentOf>>

Around(r) == BagToSet(adjacent[r])
adjacent_region_count(r) == BagCardinality(adjacent[r])

Reachable(from, without) ==
  LET grown[n \in Nat] ==
        IF n = 0 THEN {from}
        ELSE LET before == grown[n - 1]
             IN  before \cup (UNION { Around(r) : r \in before } \ without)
  IN  grown[MaxRegions]

IsLeaf(r) == adjacent_region_count(r) = 1 /\ flag[r] = "none"

-----------------------------------------------------------------------------
(* The regions of a frame.  All of them are connected to one at the edge   *)
(* of the image or to one that lost a neighbour.                           *)

Frame ==
  \E white \in Regions :
  \E edges \in SUBSET ((1 .. white) \X (white + 1 .. MaxRegions)) :
  \E flagged \in SUBSET Regions, twice \in SUBSET edges :
    LET Times(e) == IF e \in twice THEN 2 ELSE 1
    IN  /\ Cardinality(flagged) + Cardinality(twice) <= MaxSpoilt
        /\ adjacent =
             [ r \in Regions |->
                 [ q \in { p \in Regions : <<r, p>> \in edges } |-> Times(<<r, q>>) ]
                 (+) [ q \in { p \in Regions : <<p, r>> \in edges } |-> Times(<<q, r>>) ] ]
        /\ \A r \in Regions : Reachable(r, {}) \cap flagged # {}
        /\ \E root \in SUBSET flagged :
             flag = [ r \in Regions |-> IF r \in root THEN "root"
                                        ELSE IF r \in flagged THEN "fragmented" ELSE "none" ]

RootsInit ==
  /\ Frame
  /\ pending = { r \in Regions : IsLeaf(r) }
  /\ at = NoRegion /\ traversed = {} /\ candidates = <<>>
  /\ descendent_count = [ r \in Regions |-> Uncounted ]
  /\ depth = [ r \in Regions |-> 0 ]
  /\ children_visited = [ r \in Regions |-> 0 ]
  /\ parentOf = [ r \in Regions |-> NoRegion ]

-----------------------------------------------------------------------------
(* propagate_descendent_count_and_max_depth_upwards() of the region `at`.  *)

Children == Around(at) \cap traversed
Parents == Around(at) \ traversed

\* A child is counted as often as it is listed.
Count ==
  MapThenSumSet(LAMBDA q : adjacent[at][q] * (descendent_count[q] + 1), Children)
DepthOfAt == IF Children = {} THEN 0 ELSE Max({ depth[q] + 1 : q \in Children })

DepthFits == DepthOfAt \in MinDepth .. MaxDepth

\* A whole symbol, which ends the climb, one that may grow, and one that is
\* too small or too large by little: a lost symbol.
Whole == Count = MaxCount /\ DepthFits
Fits == Count \in MinCount .. MaxCount - 1 /\ DepthFits
NearlyFits ==
  Count \in MinCount - 3 .. MaxCount + 2 /\ DepthOfAt \in MinDepth - 1 .. MaxDepth + 1

\* Mutation: a region that may grow is no candidate yet.
CandidateWhole == Whole
Candidate == Whole \/ Fits \/ NearlyFits

\* All neighbours of p but its parent were counted.  One that has no parent,
\* or may have lost it, waits for all.
AllChildrenOf(p) ==
  LET others == IF flag[p] = "none" THEN adjacent_region_count(p) - 1
                ELSE adjacent_region_count(p)
  IN  children_visited[p] + 1 = others

NextLeaf ==
  /\ at = NoRegion
  /\ \E r \in pending : pending' = pending \ {r} /\ at' = r
  /\ UNCHANGED <<adjacent, flag, traversed, descendent_count, depth,
                children_visited, candidates, parentOf>>

\* If there were several parents, it would be the last one in the list.
TheParent == IF Parents = {} THEN NoRegion ELSE CHOOSE p \in Parents : TRUE

Visit ==
  /\ at # NoRegion
  /\ traversed' = traversed \cup {at}
  /\ descendent_count' = [ descendent_count EXCEPT ![at] = Count ]
  /\ depth' = [ depth EXCEPT ![at] = DepthOfAt ]
  /\ parentOf' = [ parentOf EXCEPT ![at] = TheParent ]
  /\ candidates' = IF Candidate
                   THEN Append(candidates, [ region |-> at, lost |-> ~ Whole /\ ~ Fits ])
                   ELSE candidates
  /\ LET p == TheParent
         tells == ~ Whole /\ p # NoRegion /\ flag[at] # "root"
         climbs == tells /\ Count < MaxCount /\ DepthOfAt < MaxDepth /\ AllChildrenOf(p)
     IN  /\ children_visited' = IF tells THEN [ children_visited EXCEPT ![p] = @ + 1 ]
                                ELSE children_visited
         /\ at' = IF climbs THEN p ELSE NoRegion
  /\ UNCHANGED <<adjacent, flag, pending>>

RootsNext == NextLeaf \/ Visit

RootsSpec == RootsInit /\ [][RootsNext]_rootVars

-----------------------------------------------------------------------------
(* Properties.                                                             *)

\* The regions that hang on r, seen from its parent p.
Below(r, p) == Reachable(r, {p})

\* The longest path from r away from p, in a tree.
HeightBelow(r, p) ==
  LET h[q \in Regions, up \in 0 .. MaxRegions] ==
        LET down == Around(q) \ {up}
        IN  IF down = {} THEN 0 ELSE 1 + Max({ h[d, q] : d \in down })
  IN  h[r, p]

\* Types; no region is a candidate twice.
RootsTypeOK ==
  /\ at \in 0 .. MaxRegions /\ pending \subseteq Regions /\ traversed \subseteq Regions
  /\ \A r \in Regions :
       /\ descendent_count[r] \in 0 .. MaxRegions \cup {Uncounted}
       /\ children_visited[r] \in 0 .. Cardinality(Around(r))
  /\ \A i, j \in DOMAIN candidates : candidates[i].region = candidates[j].region => i = j

ListsOnce(r) == \A q \in Around(r) : adjacent[r][q] = 1

\* A region that is reached was not traversed before and has at most one entry
\* in its list that was not: what the assertions of the function ask.  Two
\* regions that list each other twice wait for each other, so that neither is
\* reached and no region is counted twice.
OneParentIsLeft ==
  at # NoRegion => at \notin traversed /\ Cardinality(Parents) <= 1 /\ ListsOnce(at)

\* The count and the depth of a traversed region are those of all that hangs
\* on it, though it is reached through one of its leaves.
CountsAreOfSubtrees ==
  \A r \in traversed :
    /\ descendent_count[r] = Cardinality(Below(r, parentOf[r])) - 1
    /\ depth[r] = HeightBelow(r, parentOf[r])

\* What hangs on r, seen from its neighbour p, is a tree without flags of the
\* size and the depth of a symbol, in which no list holds a region twice.
IsSymbol(r, p) ==
  LET below == Below(r, p)
      edges == MapThenSumSet(LAMBDA q : Cardinality(Around(q) \cap below), below)
  IN  /\ \A q \in below : flag[q] = "none" /\ ListsOnce(q) /\ (p \in Around(q) <=> q = r)
      /\ edges = 2 * (Cardinality(below) - 1)
      /\ Cardinality(below) - 1 \in MinCount .. MaxCount
      /\ HeightBelow(r, p) \in MinDepth .. MaxDepth

\* When the search ends every symbol of the frame is a candidate, whatever
\* the order of the leaves and whatever the lists of the regions around it: a
\* tree of regions without flags, as large and as deep as the known ones, that
\* hangs on the rest of the image by its root and lists no region twice.
SymbolsAreFound ==
  pending = {} /\ at = NoRegion =>
    \A r \in Regions : \A p \in Around(r) :
      IsSymbol(r, p) => \E i \in DOMAIN candidates :
                          candidates[i] = [ region |-> r, lost |-> FALSE ]
=============================================================================
