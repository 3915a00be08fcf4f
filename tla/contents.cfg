\* Six dates written alike, footprints of up to two rings, every kind of tileset.
SPECIFICATION Spec
CONSTANTS
  Written <- AlikeDates
  Rewrites = FALSE
  Precision = 3
  Undefined = Undefined
  Footprints <- SomeFootprints
  Tilesets <- AllTilesets
  ModelArea = 20
  Limit = 10
  NoFootprint = NoFootprint
INVARIANTS
  InstantsOrdered
  StoredIsFlatAndClosed
  StoredIsAcceptedAgain
\* A model whose tileset has no polygon is never ingested.
CHECK_DEADLOCK FALSE
