SPECIFICATION Spec
CONSTANTS
    WORD_BITS = 6
    JS_SAFE_INT_BITS = 2
    JS_MAX_SAFE_INTEGER = 7
    I64_BITS = 5
    AddressDigits = 2
    UpperAt <- MCUpperAt
    Requests <- CallRequests
    None = None
    Decoded <- NativeDecoded
    Encoded <- NativeEncoded
    Parsed <- richJsonParseAt
    Params <- CallParams
    Nesting <- Depth
    Wires <- AllWires
    JsValues <- CallJsValues
    ZeroWidth <- MCZeroWidth
    DynValue <- MCDynValue
    Wire <- MCWire
    value_to_json <- MCValue_to_json
    json_to_value <- MCJson_to_value
    richJsonStringify <- MCRichJsonStringify
    richJsonParse <- MCRichJsonParse
    ViemEncodes <- MCViemEncodes
    ViemDecodes <- MCViemDecodes
    Canonical <- MCCanonical
    DistinctNames <- MCDistinctNames
    AsRead <- MCAsRead
INVARIANTS
    DecodesAsViem
    DecodedReencodes
    CanonicalResultsServed
    EncodesAsViem
    ScalarArgumentsServed
    HexAsEthers
    HexRoundTrip
    ChecksumAsViem
