CONSTANTS
    Catalog <- MCCatalog
    None = None
    Now = 1000
    Procs = {p1, p2}
    TraceCalls <- MCTraces
    SeedCalls <- MCSeeds
SPECIFICATION MCSpec
INVARIANTS
    EvidenceIsWhole
    FactsHaveTheirEvidence
    AcknowledgedIsDurable
    FreshProcessRestores
    SeedCanBeCompleted
    FakeInventsNothing
PROPERTIES
    EvidenceIsKept
