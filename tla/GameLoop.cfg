\* Two plugins with up to six systems together in each load, so that the list of systems
\* outgrows its array in the first load, in the second, or not at all.
CONSTANTS
  Files <- MCFiles
  Makes <- MCMakes
  Kinds <- MCKinds
  NoSystem = NoSystem
  MaxSystems = 6
  TicksPerDay = 2
  RefreshEvery = 2
SPECIFICATION FairSpec
INVARIANTS TypeOK NoLeftovers CoreKeepsTicking TimesAgree
PROPERTIES RoundsGoOn
CHECK_DEADLOCK FALSE
