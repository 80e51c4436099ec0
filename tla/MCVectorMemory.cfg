SPECIFICATION Spec
CONSTANTS
    g1 = g1
    g2 = g2
    v1 = v1
    v2 = v2
    intervention = intervention
    titan = titan
    older = older
    test = test
    short = short
    None = None
    Gates = {g1, g2}
    Seeders = {s}
    Importers = {i}
    Memories <- MCMemories
    Superseder <- MCSuperseder
    Providers <- MCProviders
    Storable = {titan, older}
    Model <- MCModel
    ImportCalls <- MCImportCalls
INVARIANTS
    VectorsAreSound
    ReuseIsSound
    SearchComparesOneModel
    ChainIsSavedInOrder

