SPECIFICATION Spec
CONSTANT Observer = {video, lifecycle, presence}
INVARIANTS ObserversHearOnce
CHECK_DEADLOCK FALSE
