SPECIFICATION RetrySpec
CONSTANTS
    MaxAttempts = 7
    Outages <- MCOutages
    Forever = 100
INVARIANTS
    ShortOutagesAreRiddenOut
    FinalAnswersAreFinal
