\* Dates of any precision, in two zones; the catalog answers in UTC.
SPECIFICATION Spec
CONSTANTS
  Written <- MixedDates
  Rewrites = TRUE
  Precision = 3
  Undefined = Undefined
  Footprints <- FlatFootprints
  Tilesets <- OneTileset
  ModelArea = 20
  Limit = 10
  NoFootprint = NoFootprint
INVARIANTS
  InstantsOrdered
\* A model whose tileset has no polygon is never ingested.
CHECK_DEADLOCK FALSE
