SPECIFICATION FairSpec
CONSTANTS
  Faults = {"late", "lost", "otherTab", "otherSetup", "repeat", "hasty"}
  MaxWire = 2
  MaxActs = 6
INVARIANTS TypeOK LogoutSticks LoginLands SetupOnlyFresh ShownIsStored
PROPERTY Settles
CHECK_DEADLOCK FALSE
