CONSTANTS
    Reads <- MixedReads
    Tags = 1
    MaxDamage = 0
SPECIFICATION Spec
INVARIANTS
    TruncatedAtFirstMissing
