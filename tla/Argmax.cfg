SPECIFICATION Spec
CONSTANTS
    Mod32 = 8
    Mod4 = 4
    Word <- MixedScores
    Zero = 0
INVARIANTS
    BestVectorWins
