CONSTANTS
    Catalog <- MCCatalog
    None = None
    Now = 1000
    Procs = {p1}
    TraceCalls <- MCTraces
    SeedCalls <- OneSeed
SPECIFICATION MCSpec
INVARIANTS
    SeedIsNotRefused
