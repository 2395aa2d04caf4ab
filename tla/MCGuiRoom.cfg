CONSTANT MaxAttempts = 3
SPECIFICATION FairSpec
INVARIANTS FlagsAgree AdapterBorrowed
PROPERTIES NoReplay OperationResolves RecoveryEnds QuitCompletes
