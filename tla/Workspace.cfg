CONSTANTS
  v1 = v1
  v2 = v2
  Views = {v1, v2}
  PlotSizes = {1}
  MapSizes = {2}
  Limits <- SmallLimits
  Chunk = 2
  MaxIds = 3
SYMMETRY Symmetry
SPECIFICATION Spec
INVARIANTS TypeOK Accounted IdleListExact PoolSound RefusedOnlyWhenFull MapWhole
PROPERTY GivesUpOldestFirst
CHECK_DEADLOCK FALSE
