\* CHECK_DEADLOCK stays on: some process can always start, work or die.
SPECIFICATION Spec
CONSTANTS
    module = module
    association = association
    stray = stray
    Modules = {module}
    Associations = {association, stray}
    Payloads <- MCPayloads
    NoPayload = NoPayload
    RunRows = 2
INVARIANTS
    TypeOK
    LiveRunIsNotDeclaredDead
PROPERTIES
    ReportIsTrue
    CatalogueIsTheFetch
    EveryRunEnds
