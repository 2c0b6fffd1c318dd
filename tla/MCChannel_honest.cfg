SPECIFICATION Spec
CONSTANTS
    NULL = NULL
    a = a
    b = b
    r1 = r1
    Peers = {a, b}
    Faulty = {}
    ForgedPkts <- MCNoForgedPkts
    MaxForged = 0
    Config <- MCConfig
    BaseFee = 1000
    HtlcFee = 1000
    MaxHtlcs = 2
    MaxShaIndex = 15
    SeedOf <- MCOneSeed
    AnchorAmounts = {0, 4}
    Amounts = {1000}
    Preimages = {r1}
    CommitsOverlap = FALSE
    MaxHtlcId = 2
    CloseFees = {1, 2, 4}
SYMMETRY MCSymmetry
INVARIANTS
    TypeOK
    Conservation
    NoProtocolError
    OnlyAdmittedFatal
    CommitTimerExact
    QuiescentAgree
    RevocationValid
    LadderRecovers
    CanCloseAlone
    MutualClosePays
    ViewsNested
