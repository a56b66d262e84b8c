CONSTANTS
    MaxIndex = 5
    InstallIndexes = {1, 2, 3, 4, 5}
    MaxRestarts = 2
SPECIFICATION FairSpec
INVARIANTS TypeOK IndicesOrdered AppliedInOrder NotifiedIsDurable
PROPERTIES SnapshotNeverOlder AppliedNeverUndone EventuallyApplied ImplementsStore
CHECK_DEADLOCK FALSE
