SPECIFICATION TextSpec
CONSTANTS
    Char <- MCChar
    Text <- PaddedTexts
    Digit <- MCDigit
    Field <- MCFields
    HiddenField <- MCHidden
    DATA_FIELD <- MCDataName
    RECEIVER_FIELD <- MCReceiverName
    MAX_FIELD_LEN = 3
    MAX_VALUE_LEN = 4
    Document <- PaddedDocuments
    Input <- MCNoInputs
    NoInput <- MCNoInput
    AmountSize = 10
    W8 = 32
    W32 = 256
    W64 = 64
    W128 = 4096
    MIN_GAS_LIMIT = 5
    GAS_PER_DATA_BYTE = 2
    GAS_PRICE_DIVIDER = 3
    FeeDigits = 3
    PRETTY_SIZE = 4
    KeptLength = 16
    ESDT_TRANSFER_PREFIX_LENGTH = 2
    MAX_ESDT_VALUE_HEX_COUNT = 3
    IntValues = 262144
    AUTH_TOKEN_ENCODED_ORIGIN_MAX_SIZE = 13
    MAX_AUTH_TOKEN_ORIGIN_SIZE = 7
    MAX_INT_NUM_DIGITS = 10
    AUTH_TOKEN_INVALID_ORIGIN_PREFIX <- MCReserved
INVARIANT
    DataSizeIsDecodedLength
