SPECIFICATION ScreensSpec
CONSTANTS
    TX_SIGN_FLOW_SIZE = 10
    ESDT_TRANSFER_FLOW_SIZE = 10
    MaxPairs = 7
INVARIANTS
    FlowsFit
    PairsFit
    SwitchShowsSetting
PROPERTY ScreensImplementInterface
