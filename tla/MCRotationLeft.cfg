SPECIFICATION Spec
CONSTANT PageCount = 3
INVARIANT OrientationRestored
CHECK_DEADLOCK FALSE
