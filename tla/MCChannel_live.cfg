SPECIFICATION LiveSpec
CONSTANTS
    NULL = NULL
    a = a
    b = b
    r1 = r1
    Peers = {a, b}
    Faulty = {}
    ForgedPkts <- MCNoForgedPkts
    MaxForged = 0
    Config <- MCConfig
    BaseFee = 1000
    HtlcFee = 1000
    MaxHtlcs = 2
    MaxShaIndex = 15
    SeedOf <- MCOneSeed
    AnchorAmounts = {4}
    Amounts = {1000}
    Preimages = {r1}
    CommitsOverlap = FALSE
    MaxHtlcId = 1
    CloseFees = {1, 4}
PROPERTIES
    EventuallySettled
    ClosingEnds
