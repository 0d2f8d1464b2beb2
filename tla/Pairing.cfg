SPECIFICATION FairSpec
CONSTANTS
    BLE_GAP_MAX_BOND_USERS_STORED = 2
    MaxLinks = 3
    MaxPairings = 3
    MaxDeletes = 1
    MaxErrors = 1
    MaxEvents = 1
INVARIANTS
    BondUidsContiguous
    OkMeansEncrypted
    BondAgreement
PROPERTIES
    KeyFitsRequest
    BondedPeerFound
    SecurityInitReturns
CHECK_DEADLOCK FALSE
