SPECIFICATION Spec
CONSTANTS
    Requested = {"microphone", "systemAudio"}
    MaxChanges = 2
    MaxFrames = 1
    MaxToggles = 2
    BurstLimit = 1
INVARIANTS StoppedIsDurable AgreeAtRest RecoveryIsAccepted
PROPERTIES CallsReturn
CHECK_DEADLOCK FALSE
