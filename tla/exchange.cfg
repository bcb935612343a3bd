SPECIFICATION FairSpec
CONSTANTS
    Address = {"0/0", "0/1"}
    ZeroAddress = "0/0"
    Byte <- MCBytes
    CxFaults = {"none", "keccak_init", "cx_prepend", "cx_length", "cx_address", "cx_chunk", "cx_last", "derive", "sign", "public_key", "verify"}
    Dot = "."
    Nul = "0"
    InvalidPrefix = "m"
    NotBase64 <- MCNotBase64
    AUTH_TOKEN_ENCODED_ORIGIN_MAX_SIZE <- MCOriginSize
    AUTH_TOKEN_ENCODED_TTL_MAX_SIZE <- MCTtlSize
    AUTH_TOKEN_DISPLAY_MAX_SIZE <- MCDisplaySize
    BECH32_ADDRESS_LEN <- MCAddressLen
    Ticker <- MCTicker
    IdentifierChar <- MCIdentifierChar
    ChainId <- MCChainId
    SignedToken <- MCSignedTokens
    Value <- MCValue
    Malformed = {"bad", "lengthy"}
    Lengthy = {"lengthy"}
    NotInteger = {"bad"}
    Unprintable = {"huge"}
    NotHex = {"zz"}
    Network <- MCNetwork
    DataSize <- MCDataSize
    EsdtIdentifier <- MCEsdtIdentifier
    EsdtValue <- MCEsdtValue
    EsdtValueOverrun <- MCEsdtValueOverrun
    GuardianOverrun <- MCGuardianOverrun
    Commands <- ProtocolCommands
CONSTRAINT FirstSession
INVARIANTS
    TypeOK
    ReviewHoldsTheLink
PROPERTIES
    ExchangeSpec
    EveryCommandAnswered
