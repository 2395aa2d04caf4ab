CONSTANT MaxAttempts = 5
SPECIFICATION FairSpec
INVARIANTS FlagsAgree AdapterBorrowed
PROPERTIES OperationResolves RecoveryEnds
