SPECIFICATION Spec
CONSTANTS
    Ids <- MCIds
    Stores <- MCStores
    Contexts <- MCContexts
    Scale = 4
    Similarities <- MCSimilarities
    None = None
INVARIANTS
    HistoryStaysBehind
    LiveGateHasMargin
