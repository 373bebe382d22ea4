SPECIFICATION Spec
CONSTANTS
    Mod32 = 8
    Mod4 = 4
    Word <- PositiveScores
    Zero = 0
INVARIANTS
    PredictsLast
