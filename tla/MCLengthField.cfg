CONSTANTS
    MSG_MAX_LEN = 6
    MSG_LEN_INDEX = 2
    START_FLAG = 1
    LENGTH_FLAG = 2
    ByteMod = 3
    DiscardMod = 4
    Bytes = {0, 1, 2}
    MaxFed = 12
SPECIFICATION Spec
INVARIANT LengthFieldEnforced
