\* Two batches, two restarts, and tasks that die of database errors.
SPECIFICATION FairSpec
CONSTANTS
  b1 = b1
  b2 = b2
  i1 = i1
  i2 = i2
  i3 = i3
  Batches <- TwoBatches
  Items <- ThreeItems
  BatchOf <- TwoAndOne
  NoItem = NoItem
  WithSession <- FirstAndThird
  MaxRestarts = 2
INVARIANTS TypeOK NothingIsForgotten NamedSessionAnsweredOnce
PROPERTIES ImplementsBatchLife BatchFinishes
CHECK_DEADLOCK FALSE
