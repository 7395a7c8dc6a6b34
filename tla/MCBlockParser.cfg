CONSTANTS
    a1 = a1
    a2 = a2
    Accounts <- MCAccounts
    Amounts <- MCAmounts
    Now = 7
    MaxExtrinsics = 2
    MaxBatch = 2
    BatchFunctions = {"transfer", "transfer_all"}
    NoAmount = NoAmount
    NoFee = NoFee
    MaxFeeFailures = 1
    NoReport = NoReport
SYMMETRY Symmetry
SPECIFICATION Spec
INVARIANT TypeOK
INVARIANT DecodeFaithful
INVARIANT SuccessBackedByTransfer
INVARIANT FeeOfOwnExtrinsic
