SPECIFICATION Spec
CONSTANTS
    Appliers = {a, b}
    Drift <- MCDrift
    OddTables <- MCOddTables
    Interruptions <- MCInterruptions
    None = None
SYMMETRY MCSymmetry
INVARIANTS
    ApplicationConverges
    PassMeansBaseline
