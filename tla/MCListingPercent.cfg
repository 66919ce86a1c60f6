SPECIFICATION Spec
CONSTANTS
    NameMin = 2
    NameMax = 3
    TagMax = 2
    DigestMax = 2
    DigestShorthand = 1
    ReservedNamespaces <- MCReserved
    ReservedVolumes <- MCReserved
    Characters <- MCCharacters
    Digits <- MCDigits
    LowerCase <- MCLowerCase
    UpperCase <- MCUpperCase
    HexLetters <- MCHexLetters
    LowerOf <- MCLowerOf
    Escapes <- MCEscapes
    Texts <- MCTexts
    Volumes <- MCVolumes
    FullDigest <- MCFullDigest
INVARIANTS
    WithPathNamesEntry
\* A ref to a namespace has nothing to list.
CHECK_DEADLOCK FALSE
