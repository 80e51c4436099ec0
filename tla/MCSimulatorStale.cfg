CONSTANTS
    UsedDevices <- Devices
    UsedFaults <- BenchFaults
    DriveRequests <- BenchDrives
SPECIFICATION Spec
PROPERTY
    StaleRequiresRediscovery
