CONSTANTS
    r1 = r1
    r2 = r2
    a1 = a1
    a2 = a2
    o1 = o1
    o2 = o2
    k0 = k0
    k1 = k1
    k2 = k2
    e0 = e0
    e1 = e1
    e2 = e2
    d1 = d1
    d2 = d2
    v1 = v1
    v2 = v2
    None = None
    Procs = {p1}
    Runs = {r1, r2}
    Actions = {a1, a2}
    Outcomes = {o1, o2}
    Checkpoints = {k0, k1, k2}
    Audits = {e0, e1, e2}
    Devices = {d1}
    Calibrations = {v1}
    SeededDevices <- MCSeededDevices
    StageCalls <- MistakeStageCalls
    CommitCalls <- MistakeCommitCalls
    MaxAttempts = 1
SPECIFICATION Spec
INVARIANTS
    LedgerIsSound
    TransactionsAreWhole
PROPERTIES
    ImplementsLedger
