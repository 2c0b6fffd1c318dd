SPECIFICATION Spec
CONSTANTS
    NULL = NULL
    a = a
    b = b
    r1 = r1
    Peers = {a, b}
    Faulty = {}
    ForgedPkts <- MCNoForgedPkts
    MaxForged = 0
    Config <- MCConfig
    BaseFee = 1000
    HtlcFee = 1000
    MaxHtlcs = 2
    MaxShaIndex = 15
    SeedOf <- MCOneSeed
    AnchorAmounts = {0, 4}
    Amounts = {1000}
    Preimages = {r1}
    CommitsOverlap = TRUE
    MaxHtlcId = 2
    CloseFees = {1, 4}
SYMMETRY MCSymmetry
CHECK_DEADLOCK FALSE
INVARIANT NoProtocolError
