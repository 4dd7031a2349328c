\* One chunk; its terrain is generated as t1 or t2, or, with a plugin, as t3.
CONSTANTS
  Keys = {k1}
  Edits = {fire}
  Terrains = {t1, t2, t3}
  Dynamic = {fire, t3}
  Requesters = {p1, p2}
  Objects = {o1, o2, o3}
  NoObject = NoObject
  NoKey = NoKey
  NoTerrain = NoTerrain
  Absent = Absent
  Lost = Lost
  MaxMisses = 2
  t1 = t1
  p2 = p2
SPECIFICATION MCSpec
CONSTRAINT Bounds
INVARIANTS TypeOK PlacedIsShown StopSaves UnsavedDynamicIsActive
PROPERTIES ActiveStays RequestsEnd PlacedIsStored
CHECK_DEADLOCK FALSE
