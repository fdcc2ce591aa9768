SPECIFICATION FairSpec
CONSTANTS
    Keys = {id, code}
    Values = {v, w}
    MaxLayers = 5
    None = None
INVARIANTS
    TypeOK
    IsExact
    ValuesOfPlain
PROPERTIES
    WrappersKeepValues
    WalkEnds
