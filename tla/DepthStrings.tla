----------------------------- MODULE DepthStrings -----------------------------
(***************************************************************************)
(* The name of a symbol: the string of the depths of its regions, in the   *)
(* left heavy order that does not depend on the order in which the         *)
(* segmenter listed them.  Trees are looked up by that string.             *)
(***************************************************************************)
EXTENDS Integers, Sequences, SequencesExt, FiniteSets

CONSTANT MaxNodes   \* max_node_count, the size of the largest known tree

Root == 1

\* The regions of a tree by their place in memory; adjacent_regions lists
\* the children in that order, and the parent of a region comes before it.
Trees ==
  UNION { { t \in [ 1 .. n -> 0 .. n - 1 ] : \A r \in 1 .. n : t[r] < r /\ (t[r] = 0 <=> r = Root) }
          : n \in 1 .. MaxNodes }

VARIABLES
  seen,     \* the tree under a root region of the frame
  before    \* history: that of the last frame

Children(t, r) == SetToSortSeq({ q \in DOMAIN t : t[q] = r }, <)

\* strcmp(a, b) < 0
Precedes(a, b) ==
  LET i == CHOOSE i \in 1 .. Len(a) + 1 :
             /\ \A j \in 1 .. i - 1 : j <= Len(b) /\ a[j] = b[j]
             /\ i > Len(a) \/ i > Len(b) \/ a[i] # b[i]
  IN  i <= Len(b) /\ (i > Len(a) \/ a[i] < b[i])

\* Mutation: the strings of the children stay in the order of the regions.
OrderedAsListed(strings) == strings

\* qsort with depth_string_cmp
Ordered(strings) == SortSeq(strings, LAMBDA a, b : Precedes(b, a))

\* set_depth() and build_left_heavy_depth_string()
DepthString(t) ==
  LET string[r \in DOMAIN t, depth \in 0 .. MaxNodes] ==
        LET children == Children(t, r)
        IN  <<depth>> \o FlattenSeq(
              Ordered([ i \in DOMAIN children |-> string[children[i], depth + 1] ]))
  IN  string[Root, 0]

NextFrame == seen' \in Trees /\ before' = seen

StringsInit == seen \in Trees /\ before = seen
StringsSpec == StringsInit /\ [][NextFrame]_<<seen, before>>

-----------------------------------------------------------------------------

\* The reference: a renaming of the regions that keeps the parents.
Isomorphic(t, u) ==
  /\ DOMAIN t = DOMAIN u
  /\ \E f \in [ DOMAIN t -> DOMAIN u ] :
       /\ \A p, q \in DOMAIN t : f[p] = f[q] => p = q
       /\ \A r \in DOMAIN t : IF r = Root THEN f[r] = Root ELSE u[f[r]] = f[t[r]]

\* Two frames show one symbol exactly when the trees are alike: no order of
\* the regions gives a symbol a second name, and no two symbols share one.
StringsTellTrees ==
  DepthString(seen) = DepthString(before) <=> Isomorphic(seen, before)
=============================================================================
