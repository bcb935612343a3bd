SPECIFICATION Spec
CONSTANTS
    Address = {"0/0"}
    ZeroAddress = "0/0"
    Byte <- MCBytes
    CxFaults = {"none"}
    Dot = "."
    Nul = "0"
    InvalidPrefix = "m"
    NotBase64 <- MCNotBase64
    AUTH_TOKEN_ENCODED_ORIGIN_MAX_SIZE <- MCOriginSize
    AUTH_TOKEN_ENCODED_TTL_MAX_SIZE <- MCTtlSize
    AUTH_TOKEN_DISPLAY_MAX_SIZE <- MCDisplaySize
    BECH32_ADDRESS_LEN <- MCAddressLen
    Ticker <- MCTicker
    IdentifierChar <- MCIdentifierChar
    ChainId <- MCChainId
    SignedToken <- MCSignedTokens
    Value <- MCValue
    Malformed = {"bad", "lengthy"}
    Lengthy = {"lengthy"}
    NotInteger = {"bad"}
    Unprintable = {"huge"}
    NotHex = {"zz"}
    Network <- MCNetwork
    DataSize <- MCDataSize
    EsdtIdentifier <- MCEsdtIdentifier
    EsdtValue <- MCEsdtValue
    EsdtValueOverrun <- MCEsdtValueOverrun
    GuardianOverrun <- MCGuardianOverrun
    Commands <- MixedSessionCommands
INVARIANTS
    MessageHasAnnouncedLength
