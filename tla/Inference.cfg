SPECIFICATION FairSpec
CONSTANTS
    Mod32 = 64
    Mod4 = 4
    Mod17 = 16
    Word <- MCWord
    Zero = 0
    Scale = 2
    Half = 8
    DoubleMod = 256
    BurstSize <- MCBurstSize
    AddressUnit = 2
    Memory <- MCMemory
    MaxPending = 2
    conv_weights <- MCWeights
    conv_bias = 5
    PowerUp <- MCPowerUp
    Images <- MCImages
    ImageSize = 8
    nnWeights = 40
    WeightSize = 12
INVARIANTS
    TypeOK
    ActivationsMeetNoRow
    RowsHaveAPlace
    ScoresAreOfThisImage
    ReturnsBestClass
PROPERTIES
    FetchesWhatIsAsked
    ResultsFollow
