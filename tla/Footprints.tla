------------------------------ MODULE Footprints -------------------------------
(***************************************************************************)
(* The footprint of a record: what createModel and updateMetadata ask of   *)
(* it, against the polygon of the model's tileset, and what they make of   *)
(* it before it is stored.  Module Records has only the verdicts of these  *)
(* checks; here are the checks.                                            *)
(*                                                                         *)
(* A polygon is reduced to what the checks tell apart: of a ring the       *)
(* number of its positions, how many numbers they have and how it closes;  *)
(* of the whole, assumed simple, the area it shares with the polygon of    *)
(* the model and the area it has outside.                                  *)
(***************************************************************************)
EXTENDS Naturals, Sequences

CONSTANTS
    Footprints,     \* the footprints clients send
    Tilesets,       \* the tileset files there may be
    ModelArea,      \* area of the polygon of the model
    Limit,          \* validation.percentageLimit
    NoFootprint     \* there is no record yet, or no footprint in a payload

(***************************************************************************)
(* How a ring closes: its last position is the first; it is only above or  *)
(* below it (same two coordinates, another height or none); or elsewhere.  *)
(***************************************************************************)
Rings ==
  [ positions : Nat,
    sizes     : SUBSET Nat,   \* the numbers of coordinates of its positions
    first     : Nat,          \* the number of coordinates of its first one
    closing   : {"equal", "above", "apart"} ]

(* `type' is what GeoJSON calls it: the OpenAPI schema of the gateway lets  *)
(* every geometry through where it expects a polygon.                      *)
Polygons ==
  [ type : {"Polygon", "another"}, rings : Seq(Rings), inside : Nat, outside : Nat ]

Volumes == {"sphere", "region", "box"}

TilesetFiles == [readable : BOOLEAN, volumes : SUBSET Volumes]

ASSUME FootprintAssumption ==
  /\ Footprints \subseteq Polygons
  /\ \A f \in Footprints : \A i \in DOMAIN f.rings : f.rings[i].first \in f.rings[i].sizes
  /\ NoFootprint \notin Polygons
  /\ Tilesets \subseteq TilesetFiles
  /\ ModelArea \in Nat /\ Limit \in Nat
  /\ \A f \in Footprints : f.inside <= ModelArea

-----------------------------------------------------------------------------
(* The polygon of the model: sphere before region; a box is not supported, *)
(* and neither is a file that is not JSON or lacks the volume.             *)
getTilesetModelPolygon(file) ==
  file.readable /\ ("sphere" \in file.volumes \/ "region" \in file.volumes)

footprintSchema(f) ==
  /\ f.type = "Polygon"
  /\ \A i \in DOMAIN f.rings :
       f.rings[i].positions >= 4 /\ \A n \in f.rings[i].sizes : n >= 2

(* The first ring only; without a ring the check throws.                   *)
validateCoordinates(f) == f.rings # <<>> /\ f.rings[1].closing # "apart"

validateCoordinatesAreAll2DOr3D(f) ==
  \A i \in DOMAIN f.rings : f.rings[i].sizes = {f.rings[1].first}

isPolygonValid(f) ==
  /\ footprintSchema(f)
  /\ validateCoordinates(f)
  /\ validateCoordinatesAreAll2DOr3D(f)

(* turf's polygon() throws unless every ring closes in all its numbers.    *)
polygon(f) ==
  \A i \in DOMAIN f.rings : f.rings[i].positions >= 4 /\ f.rings[i].closing = "equal"

(* 100 * area(footprint) / area(union) < limit                             *)
isCoverageReached(f) ==
  100 * (f.inside + f.outside) >= Limit * (ModelArea + f.outside)

(* Mutant: the areas are taken without building turf's polygons.           *)
isFootprintAndModelIntersects_Unbuilt(f) == f.inside > 0 /\ isCoverageReached(f)

isFootprintAndModelIntersects(f) ==
  /\ polygon(f)
  /\ f.inside > 0
  /\ isCoverageReached(f)

isAccepted(f, file) ==
  /\ isPolygonValid(f)
  /\ getTilesetModelPolygon(file)
  /\ isFootprintAndModelIntersects(f)

(***************************************************************************)
(* Every position loses all but its first two coordinates.                 *)
(***************************************************************************)
Flat(ring) ==
  [ positions |-> ring.positions, sizes |-> {2}, first |-> 2,
    closing   |-> IF ring.closing = "apart" THEN "apart" ELSE "equal" ]

(* Mutant: only the first ring is converted.                               *)
convertPolygonTo2DPolygon_FirstRing(f) ==
  [f EXCEPT !.rings = [i \in DOMAIN @ |-> IF i = 1 THEN Flat(@[i]) ELSE @[i]]]

convertPolygonTo2DPolygon(f) ==
  [f EXCEPT !.rings = [i \in DOMAIN @ |-> Flat(@[i])]]

-----------------------------------------------------------------------------
VARIABLES
    tileset,    \* the tileset file of the model
    footprint   \* the footprint of its record

InitFootprint == tileset \in Tilesets /\ footprint = NoFootprint

(* The footprint of a new model, which is required.                        *)
IngestFootprint(f) ==
  /\ footprint = NoFootprint
  /\ isAccepted(f, tileset)
  /\ footprint' = convertPolygonTo2DPolygon(f)
  /\ UNCHANGED tileset

(* The footprint of an update, if it has one.                              *)
UpdateFootprint(f) ==
  /\ footprint # NoFootprint
  /\ \/ /\ f # NoFootprint
        /\ isAccepted(f, tileset)
        /\ footprint' = convertPolygonTo2DPolygon(f)
     \/ f = NoFootprint /\ UNCHANGED footprint
  /\ UNCHANGED tileset

-----------------------------------------------------------------------------
(***************************************************************************)
(* Whatever clients sent, the footprint the catalog gets is a flat polygon *)
(* all of whose rings are closed, although validateCoordinates looks at    *)
(* the first ring only, and it meets the model.                            *)
(***************************************************************************)
StoredIsFlatAndClosed ==
  footprint # NoFootprint =>
    /\ footprint.rings # <<>>
    /\ \A i \in DOMAIN footprint.rings :
         footprint.rings[i].sizes = {2} /\ footprint.rings[i].closing = "equal"
    /\ footprint.inside > 0

(***************************************************************************)
(* A client that reads a record and sends it back, changed elsewhere, is   *)
(* not refused for its footprint: what the conversion makes of an accepted *)
(* footprint is accepted by the same checks.                               *)
(***************************************************************************)
StoredIsAcceptedAgain == footprint # NoFootprint => isAccepted(footprint, tileset)

(***************************************************************************)
(* What validationManager.ts:448 says of a footprint that is refused: its  *)
(* intersection with the model reaches the minimum threshold - here read   *)
(* as mildly as it can be, as a share of the smaller of the two polygons.  *)
(***************************************************************************)
IntersectionReachesLimit ==
  footprint # NoFootprint =>
    \/ 100 * footprint.inside >= Limit * ModelArea
    \/ 100 * footprint.inside >= Limit * (footprint.inside + footprint.outside)
================================================================================
