SPECIFICATION Spec
CONSTANTS
    Mod32 = 8
    Mod4 = 4
    Word <- MCWord
    Zero = 0
    Scale = 4
    Half = 8
    DoubleMod = 256
    Bias <- MCBias
    Terms = 4
INVARIANTS
    TypeOK
    ExactIfItFits
    SignSurvives
CHECK_DEADLOCK FALSE
