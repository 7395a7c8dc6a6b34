CONSTANTS
    s1 = s1
    Transfer = Transfer
    NoCall = NoCall
    NoResult = NoResult
    Senders = {s1}
    Nonces = {0, 64}
    Tips = {0, 1}
    HashInputs = {"", "aa", "zz"}
    BadHex = "zz"
    Versions <- MCVersions
    BlockNumbers = {0, 100}
    EraPeriods = {0, 64}
    Calls = {Transfer}
    CallLen <- MCCallLen
    PrivateKeys = {"k1", "zz"}
    BadKey = "zz"
SPECIFICATION Spec
INVARIANT TypeOK
INVARIANT SignedMatchesPayload
 
