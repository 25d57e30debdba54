SPECIFICATION Spec
INVARIANT SPUnchanged
CHECK_DEADLOCK FALSE
