CONSTANTS
    A = A
    B = B
    d0 = d0
    d1 = d1
    d2 = d2
    None = None
    Classes <- MCClasses
    Texts <- MCTexts
    MaxTime = 2
    MaxEdits = 2
SYMMETRY Symmetric
SPECIFICATION MCSpec
INVARIANT SafeReuseAfterCrash
