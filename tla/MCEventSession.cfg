CONSTANTS
    IdleTimeout = 3
    ProbeWindow = 3
    ReadPoll = 2
    ConnectTimeout = 1
    InitialBackoff = 1
    MaxBackoff = 4
    MaxTries = 4
SPECIFICATION SessionFairSpec
INVARIANTS SessionTypeOK AvailabilityHonest MonitorSilenceBounded BackoffHonoured
PROPERTIES NoChurn StoppedGoesOffline MonitorComesBack
