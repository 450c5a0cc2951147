SPECIFICATION Spec
CONSTANTS
    Jobs = {1, 2, 3}
    Contract = "c"
    Clauses = {}
    MaxReuse = 1
    Builtins = {"uint64", "bitset"}
    Reserved = {"X__", "do__it"}
    Types <- MCTypes
    Unit <- MCUnit
    HashId <- MCHashId
    Scenarios <- MCScenarios
INVARIANTS
    LinkedOwnSources
    ImageComplete
    DispatchedIsDescribed
    FailuresExplained
    OnlyFailuresLeaveFiles
    TypesDescribed
