SPECIFICATION Spec
CONSTANTS
    NULL = NULL
    a = a
    b = b
    r1 = r1
    Peers = {a, b}
    Faulty = {b}
    ForgedPkts <- MCForgedPkts
    MaxForged = 1
    Config <- MCConfig
    BaseFee = 1000
    HtlcFee = 1000
    MaxHtlcs = 1
    MaxShaIndex = 15
    SeedOf <- MCOneSeed
    AnchorAmounts = {0}
    Amounts = {1000}
    Preimages = {r1}
    CommitsOverlap = FALSE
    MaxHtlcId = 1
    CloseFees = {1, 4}
CHECK_DEADLOCK FALSE
INVARIANT NoFatal
