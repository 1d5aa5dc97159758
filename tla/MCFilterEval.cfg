CONSTANTS
    Attributes <- MCAttributes
    Definition <- MCDefinition
    Withheld = {"password"}
    Held <- MCHeld
    Paths <- MCPaths
    Literals <- MCLiterals
    Base64 <- MCBase64
    Instant <- MCInstant
    MaxNodes = 3
    Words = {"x"}
    Digits = {"7"}
    Strings = {"s", "bad"}
    Decodable = {"s"}
    MaxInput = 20
    Texts <- MCTexts
    Fragments <- MCFragments
    MaxEdits = 2
    ShortText = 5
SPECIFICATION MCSpec
INVARIANTS Concealed ValueFiltersAgree SpellingsAgree ReadsExactly WorkLinear
CHECK_DEADLOCK FALSE
