CONSTANTS
    Upper <- SomeUpper
    Lower <- SomeLower
    UINT8_MAX = 255
    UINT16_MAX = 65535
    MAX_INT = 2147483647
    MAX_REQUEST_HEADERS = 2
    CONTENT_LENGTH <- TheName
    IPv4Texts <- SomeIPv4
    IPv6Texts <- SomeIPv6
    RequestTexts <- SomeRequests
    Junk <- SomeJunk
SPECIFICATION Spec
CHECK_DEADLOCK FALSE
INVARIANT
    AddressesAsInetPton
