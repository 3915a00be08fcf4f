\* Flat squares that share more or less with the model.
SPECIFICATION Spec
CONSTANTS
  Written <- OneDate
  Rewrites = FALSE
  Precision = 3
  Undefined = Undefined
  Footprints <- FlatFootprints
  Tilesets <- OneTileset
  ModelArea = 20
  Limit = 10
  NoFootprint = NoFootprint
INVARIANTS
  IntersectionReachesLimit
\* A model whose tileset has no polygon is never ingested.
CHECK_DEADLOCK FALSE
