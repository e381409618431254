CONSTANTS
    Samples <- SomeBytes
    Texts <- SomeTexts
    MaxBytes = 5
    MaxChars = 5
SPECIFICATION Spec
INVARIANTS RoundTrip IsStandard DecodesPrefix
CHECK_DEADLOCK FALSE
