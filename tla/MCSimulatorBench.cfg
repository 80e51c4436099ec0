CONSTANTS
    UsedDevices <- Devices
    UsedFaults <- BenchFaults
    DriveRequests <- BenchDrives
SPECIFICATION Spec
INVARIANTS
    TypeOK
    SharedEffects
    CheckpointAccepted
    StaleHintExplained
    RecoverySucceeds
