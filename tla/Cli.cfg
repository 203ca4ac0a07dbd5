SPECIFICATION Spec
INVARIANT PlaybackSocketConnected
CHECK_DEADLOCK FALSE
