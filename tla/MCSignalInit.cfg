CONSTANT MaxInits = 3
SPECIFICATION Spec
INVARIANTS TypeOK NoOrphan GlobalExports Propagates FailureLeavesNoTrace
CHECK_DEADLOCK FALSE
