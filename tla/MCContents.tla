------------------------------- MODULE MCContents ------------------------------
(* Instances of Contents for TLC.                                          *)
EXTENDS Contents

Stamp(clock, digits, sign, offset) ==
  [clock |-> clock, digits |-> digits, sign |-> sign, offset |-> offset]

(* One zone, always two digits after the seconds.                          *)
AlikeDates == {Stamp(c, d, "+", 2) : c \in 3..4, d \in {<<0, 9>>, <<5, 0>>, <<5, 5>>}}

(* Dates of a client at home in two zones, as precise as it likes.         *)
MixedDates ==
  {Stamp(c, d, "Z", 0) : c \in 3..5, d \in {<<>>, <<5>>, <<5, 5>>}} \cup
  {Stamp(c, <<>>, "+", 2) : c \in 3..5}

OneDate == {Stamp(3, <<>>, "Z", 0)}

(* Rings whose positions have two coordinates, three, or some of each.     *)
SomeRings ==
  { [positions |-> 4, sizes |-> s.sizes, first |-> s.first, closing |-> c] :
      s \in {[sizes |-> {2}, first |-> 2], [sizes |-> {3}, first |-> 3],
             [sizes |-> {2, 3}, first |-> 2]},
      c \in {"equal", "above", "apart"} }

(* Areas inside and outside the polygon of the model, which has 20.        *)
Areas == {<<0, 20>>, <<1, 0>>, <<1, 20>>, <<20, 5>>}

Geometry(type, rings, areas) ==
  [type |-> type, rings |-> rings, inside |-> areas[1], outside |-> areas[2]]

FlatRing == [positions |-> 4, sizes |-> {2}, first |-> 2, closing |-> "equal"]

(* Flat squares, which differ in their areas; and something else.          *)
FlatFootprints ==
  {Geometry("Polygon", <<FlatRing>>, ar) : ar \in Areas} \cup
  {Geometry("another", <<FlatRing>>, <<20, 5>>)}

(* Polygons of no ring, of one, or of one with a hole.                     *)
SomeFootprints ==
  FlatFootprints \cup
  { Geometry("Polygon", rs, <<20, 5>>) :
      rs \in {<<>>} \cup {<<r>> : r \in SomeRings} \cup {<<r, s>> : r, s \in SomeRings} }

AllTilesets == TilesetFiles

OneTileset == {[readable |-> TRUE, volumes |-> {"sphere"}]}
================================================================================
