SPECIFICATION Spec
CONSTANTS
    IntMax = 50
    ByteBase = 4
    RandomLen = 1
    MaxPath = 7
    MaxBytes = 5
    MaxText = 5
INVARIANTS
    PathNormalised
    HrefParsesBack
    ResolveTarget
    Base64Exact
    RewriteWellFormed
    MessagesAsSent
CHECK_DEADLOCK FALSE
