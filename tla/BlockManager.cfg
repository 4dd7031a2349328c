\* A fire or a crop, next to a door, a chest with something in it, or terrain that is
\* stored or still to be generated.
CONSTANTS
  a = a
  b = b
  alice = alice
  gold = gold
  Places = {a, b}
  Near <- MCNear
  Stored <- MCStored
  Players = {alice}
  Items = {gold}
  NoOwner = NoOwner
  NoPlace = NoPlace
  Lifetime = 1
  Ripe = 1
  Copies = {1, 2, 3, 4, 5}
  NoObject = NoObject
  Absent = Absent
  EventsCap = 1
  Budget <- MCBudget
  MaxStacks = 1
SPECIFICATION FairSpec
INVARIANTS TypeOK StaysScheduled MapsAgree ChestSurvivesSave
PROPERTIES KeepsTicking
CHECK_DEADLOCK FALSE
