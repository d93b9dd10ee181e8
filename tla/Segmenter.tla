------------------------------ MODULE Segmenter ------------------------------
(***************************************************************************)
(* The segmenter of libfidtrack: one pass over the pixels of a thresholded *)
(* image, row by row, that groups them into regions of one colour and      *)
(* lists for every region the ones it touches.                             *)
(*                                                                         *)
(* A cell of a row points to a reference, which holds a region or, once    *)
(* its region was merged, is redirected to another reference.  Freed       *)
(* regions are used again.  The two rows under construction are the end of *)
(* the sequence `cells`, whose earlier part the code no longer has.        *)
(***************************************************************************)
EXTENDS Integers, Sequences, SequencesExt, FiniteSets

CONSTANTS
  Width, Height,  \* of the image, positive numbers
  MaxAdjacent     \* max_adjacent_regions, the room of a region's list

ASSUME ImageAssumption == Width \in Nat \ {0} /\ Height \in Nat \ {0}
ASSUME RoomAssumption == MaxAdjacent \in Nat

Black == 0
White == 255

VARIABLES
  image,    \* the colours of the pixels read so far
  cells,    \* the reference of each of them
  refs,     \* region_refs: [redirect, region]
  regions,  \* the regions, in the order of their allocation
  freed     \* freed_regions_head: the freed regions, the last one first

segVars == <<image, cells, refs, regions, freed>>

X(i) == (i - 1) % Width
Y(i) == (i - 1) \div Width

-----------------------------------------------------------------------------
(* The adjacency lists.  rs stands for `regions` in the middle of a step.  *)

IsAdjacent(rs, r1, r2) ==
  IF Len(rs[r1].adjacent) > Len(rs[r2].adjacent)
  THEN Contains(rs[r2].adjacent, r1) ELSE Contains(rs[r1].adjacent, r2)

FirstOf(list, a) ==
  CHOOSE i \in DOMAIN list : list[i] = a /\ \A j \in 1 .. i - 1 : list[j] # a

\* The last element takes the place of the i-th.
SwappedOut(list, i) == Front([ list EXCEPT ![i] = Last(list) ])

\* remove_adjacent_from(r1, r2): r2 is removed from the list of r1.
RemovedFrom(rs, r1, r2) ==
  IF Contains(rs[r1].adjacent, r2)
  THEN [ rs EXCEPT ![r1].adjacent = SwappedOut(@, FirstOf(@, r2)) ] ELSE rs

\* Mutation: the regions that lose a neighbour are not told.
SaturatedQuietly(rs, r1) ==
  [ FoldLeft(LAMBDA s, a : RemovedFrom(s, a, r1), rs, rs[r1].adjacent)
    EXCEPT ![r1].adjacent = <<>>, ![r1].flags = @ \cup {"saturated"} ]

Flagged(rs, r, flag) == [ rs EXCEPT ![r].flags = @ \cup {flag} ]

\* make_saturated()
Saturated(rs, r1) ==
  [ FoldLeft(LAMBDA s, a : Flagged(RemovedFrom(s, a, r1), a, "fragmented"),
             rs, rs[r1].adjacent)
    EXCEPT ![r1].adjacent = <<>>, ![r1].flags = @ \cup {"saturated"} ]

\* make_adjacent(): a full list is given up, and its region is saturated.
MadeAdjacent(rs, r1, r2) ==
  LET Full(r) == Len(rs[r].adjacent) = MaxAdjacent
      FillsUp(s, r, other) == Flagged(Saturated(s, r), other, "fragmented")
  IN  IF IsAdjacent(rs, r1, r2) THEN rs
      ELSE IF "saturated" \in rs[r1].flags THEN Flagged(rs, r2, "fragmented")
      ELSE IF "saturated" \in rs[r2].flags THEN Flagged(rs, r1, "fragmented")
      ELSE IF Full(r1)
      THEN LET s == FillsUp(rs, r1, r2) IN IF Full(r2) THEN FillsUp(s, r2, r1) ELSE s
      ELSE IF Full(r2) THEN FillsUp(rs, r2, r1)
      ELSE [ rs EXCEPT ![r1].adjacent = Append(@, r2), ![r2].adjacent = Append(@, r1) ]

-----------------------------------------------------------------------------
(* merge_regions(): r2 is merged into r1.                                  *)

\* The i-th neighbour of r2 is removed if r1 has it too; the last one takes
\* its place.
WithoutShared(s, i, r1, r2) ==
  LET list == s[r2].adjacent
  IN  IF i > Len(list) \/ ~ IsAdjacent(s, list[i], r1) THEN s
      ELSE [ RemovedFrom(s, list[i], r2) EXCEPT ![r2].adjacent = SwappedOut(@, i) ]

\* The loop that removes the neighbours r2 shares with r1: the one that
\* takes the place of a removed one is not looked at.
WithoutCommon(rs, r1, r2) ==
  FoldLeft(LAMBDA s, i : WithoutShared(s, i, r1, r2),
           rs, [ i \in DOMAIN rs[r2].adjacent |-> i ])

\* replace_adjacent(), which gives region a the neighbour r1 for r2; r1 lists it.
Replaced(s, a, r1, r2) ==
  [ s EXCEPT ![a].adjacent = [ @ EXCEPT ![FirstOf(@, r2)] = r1 ],
             ![r1].adjacent = Append(@, a) ]

\* The loop that hands the neighbours of r2 to r1.
Transferred(rs, r1, r2) ==
  [ FoldLeft(LAMBDA s, a : Replaced(s, a, r1, r2), rs, rs[r2].adjacent)
    EXCEPT ![r2].adjacent = <<>> ]

Joined(rs, r1, r2) ==
  LET s == WithoutCommon(rs, r1, r2)
  IN  IF "saturated" \in rs[r1].flags \cup rs[r2].flags
         THEN Saturated(Saturated(rs, r2), r1)
      ELSE IF Len(s[r1].adjacent) + Len(s[r2].adjacent) > MaxAdjacent
         THEN Saturated(Saturated(s, r1), r2)
      ELSE Transferred(s, r1, r2)

Least(a, b) == IF b < a THEN b ELSE a
Largest(a, b) == IF b > a THEN b ELSE a

Boxed(a, b) ==
  [ a EXCEPT !.left = Least(@, b.left), !.top = Least(@, b.top),
             !.right = Largest(@, b.right), !.bottom = Largest(@, b.bottom) ]

Merged(rs, r1, r2) ==
  LET s == Joined(rs, r1, r2)
      both == s[r1].flags \cup s[r2].flags
  IN  [ s EXCEPT ![r1] = Boxed([ s[r1] EXCEPT !.flags = both ], s[r2]) ]

-----------------------------------------------------------------------------
(* build_regions(): one action for the pixel that is read next.  The root  *)
(* flag of the bottom row is set with its pixels.                          *)

Here == Len(image) + 1           \* the pixel that is read
HasWest == X(Here) > 0
HasNorth == Y(Here) > 0
AtEdge == X(Here) \in {0, Width - 1} \/ Y(Here) \in {0, Height - 1}

SameAsWest(colour) == HasWest /\ image[Here - 1] = colour

\* Mutation: the last column is not compared with the row above.
SameAsNorthButLast(colour) ==
  HasNorth /\ X(Here) < Width - 1 /\ image[Here - Width] = colour

SameAsNorth(colour) == HasNorth /\ image[Here - Width] = colour

\* RESOLVE_REGIONREF_REDIRECTS
Resolved(ref) ==
  LET f[r \in DOMAIN refs] ==
        IF refs[r].redirect = r THEN r ELSE f[refs[r].redirect]
  IN  f[ref]

\* The reference of the pixel before is always up to date; that of the one
\* above is not.
West == cells[Here - 1]
North == Resolved(cells[Here - Width])
WestRegion == refs[West].region
NorthRegion == refs[North].region

\* The pixel that was read is in region r, which touches the root at the
\* edges of the image.
Becomes(colour, cell, r, rs) ==
  /\ image' = Append(image, colour)
  /\ cells' = Append(cells, cell)
  /\ regions' = IF AtEdge THEN Flagged(rs, r, "root") ELSE rs

\* The span of the pixel before ends at it, but not on the top line.
SpanEnded ==
  IF HasWest /\ HasNorth
  THEN [ regions EXCEPT ![WestRegion].right = Largest(@, X(Here) - 1) ] ELSE regions

\* The colour of the pixel before goes on, and the region above is no other.
Continue(colour) ==
  /\ SameAsWest(colour)
  /\ ~ (SameAsNorth(colour) /\ North # West)
  /\ Becomes(colour, West, WestRegion, regions)
  /\ UNCHANGED <<refs, freed>>

\* The region of the span meets another one above it, which takes it over.
Merge(colour) ==
  /\ SameAsWest(colour) /\ SameAsNorth(colour) /\ North # West
  /\ Becomes(colour, North, NorthRegion, Merged(regions, NorthRegion, WestRegion))
  /\ refs' = [ refs EXCEPT ![West] = [ redirect |-> North, region |-> 0 ] ]
  /\ freed' = <<WestRegion>> \o freed

\* Only the centre of a row moves the lower edge, and never its first pixel.
Join(colour) ==
  /\ SameAsNorth(colour) /\ ~ SameAsWest(colour)
  /\ Becomes(colour, North, NorthRegion,
             IF HasWest THEN [ SpanEnded EXCEPT ![NorthRegion].bottom = Y(Here) ]
             ELSE regions)
  /\ UNCHANGED <<refs, freed>>

FreedButFirst == IF freed = <<>> THEN freed ELSE Tail(freed)

\* new_region(), in the region that was freed last, or in a fresh one.
Allocated(rs, r, colour) ==
  LET new == [ colour |-> colour, adjacent |-> <<>>, flags |-> {},
               left |-> X(Here), right |-> X(Here), top |-> Y(Here), bottom |-> Y(Here) ]
  IN  IF r > Len(rs) THEN Append(rs, new) ELSE [ rs EXCEPT ![r] = new ]

\* A pixel unlike both its neighbours starts a region that touches theirs.
NewRegion(colour) ==
  /\ ~ SameAsWest(colour) /\ ~ SameAsNorth(colour)
  /\ LET r == IF freed = <<>> THEN Len(regions) + 1 ELSE Head(freed)
         s == Allocated(SpanEnded, r, colour)
         t == IF HasNorth THEN MadeAdjacent(s, r, NorthRegion) ELSE s
         ref == Len(refs) + 1
     IN  /\ Becomes(colour, ref, r,
                    IF HasWest /\ ~ (HasNorth /\ WestRegion = NorthRegion)
                    THEN MadeAdjacent(t, r, WestRegion) ELSE t)
         /\ refs' = Append(refs, [ redirect |-> ref, region |-> r ])
         /\ freed' = FreedButFirst

Done == Len(image) = Width * Height

ReadPixel ==
  /\ ~ Done
  /\ \E colour \in {Black, White} :
       Continue(colour) \/ Merge(colour) \/ Join(colour) \/ NewRegion(colour)

SegInit ==
  image = <<>> /\ cells = <<>> /\ refs = <<>> /\ regions = <<>> /\ freed = <<>>

\* step_segmenter() with the next image.
NextImage ==
  /\ Done
  /\ image' = <<>> /\ cells' = <<>> /\ refs' = <<>> /\ regions' = <<>> /\ freed' = <<>>

SegNext == ReadPixel \/ NextImage

SegSpec == SegInit /\ [][SegNext]_segVars

-----------------------------------------------------------------------------
(* The reference: the connected components of the pixels read so far.      *)

Pixels == DOMAIN image

Touch(i, j) ==
  \/ Y(i) = Y(j) /\ (X(i) = X(j) + 1 \/ X(j) = X(i) + 1)
  \/ i = j + Width \/ j = i + Width

Alike == [ i \in Pixels |-> { j \in Pixels : Touch(i, j) /\ image[i] = image[j] } ]

Component(i) ==
  LET grown[n \in Nat] ==
        IF n = 0 THEN {i}
        ELSE LET before == grown[n - 1] IN before \cup UNION { Alike[j] : j \in before }
  IN  grown[Width * Height]

RegionOf == [ i \in Pixels |-> refs[Resolved(cells[i])].region ]
Live == { RegionOf[i] : i \in Pixels }
PixelsOf(r) == { i \in Pixels : RegionOf[i] = r }

\* The regions that touch region r in the image.
Neighbours(r) ==
  { RegionOf[j] : j \in { j \in Pixels : \E i \in PixelsOf(r) : Touch(i, j) } } \ {r}

Count(list, a) == Cardinality({ i \in DOMAIN list : list[i] = a })

-----------------------------------------------------------------------------
(* Properties.                                                             *)

\* Types; no region is freed while pixels are in it, or freed twice, and no
\* list outgrows its room.
SegTypeOK ==
  /\ image \in Seq({Black, White}) /\ Len(cells) = Len(image)
  /\ \A i \in Pixels : cells[i] \in DOMAIN refs
  /\ \A i, j \in DOMAIN freed : freed[i] \notin Live /\ (freed[i] = freed[j] => i = j)
  /\ DOMAIN regions = Live \cup { freed[i] : i \in DOMAIN freed }
  /\ \A r \in Live : Len(regions[r].adjacent) <= MaxAdjacent

\* Two pixels are in one region exactly when they are connected by pixels of
\* their colour, after every pixel and not only at the end of the image.
RegionsAreComponents ==
  \A i \in Pixels : PixelsOf(RegionOf[i]) = Component(i)

\* An adjacency is listed by both of its regions, as often by the one as by
\* the other: what the assertions of the code ask of each step on its own.
AdjacencyIsMutual ==
  \A r \in Live : \A q \in ToSet(regions[r].adjacent) :
    Count(regions[r].adjacent, q) = Count(regions[q].adjacent, r)

\* After a merge the list of a region holds each of its neighbours once: what
\* the comment of merge_regions() says, whose loop passes over an entry.
NoneIsListedTwice ==
  \A r \in Live : IsInjective(regions[r].adjacent)

\* The lists hold regions that touch in the image, and a region neither
\* saturated nor fragmented has not lost one.  The recogniser takes a region
\* with both its flags clear for a whole node of a symbol (fidtrackX.cpp:488).
LossesAreFlagged ==
  \A r \in Live :
    LET listed == ToSet(regions[r].adjacent)
    IN  /\ listed \subseteq Neighbours(r)
        /\ regions[r].flags \cap {"saturated", "fragmented"} = {} => listed = Neighbours(r)

\* At the end of an image the box of a region is that of its pixels, save
\* the right side of one that reaches the last column, or that has its only
\* pixels on the top line, and the lower side of one that reaches the first.
BoxesAreExact ==
  Done =>
    \A r \in Live :
      LET xs == { X(i) : i \in PixelsOf(r) }
          ys == { Y(i) : i \in PixelsOf(r) }
      IN  /\ regions[r].left \in xs /\ \A v \in xs : regions[r].left <= v
          /\ regions[r].top \in ys /\ \A v \in ys : regions[r].top <= v
          /\ Width - 1 \notin xs /\ 0 \notin ys
               => regions[r].right \in xs /\ \A v \in xs : regions[r].right >= v
          /\ 0 \notin xs
               => regions[r].bottom \in ys /\ \A v \in ys : regions[r].bottom >= v
=============================================================================
