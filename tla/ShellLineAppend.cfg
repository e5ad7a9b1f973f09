CONSTANT MaxLine = 6
SPECIFICATION LineSpec
CHECK_DEADLOCK FALSE
INVARIANT OverwritesFile
