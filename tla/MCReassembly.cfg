CONSTANTS
    Reads <- AllReads
    Tags = 2
    MaxDamage = 2
SPECIFICATION Spec
INVARIANTS
    ReadingsInPlace
    NothingForeign
    RecordsInOrder
