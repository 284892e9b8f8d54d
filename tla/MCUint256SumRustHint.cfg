CONSTANT Shift = 4
SPECIFICATION Spec
INVARIANT RsHintAccepted
CHECK_DEADLOCK FALSE
