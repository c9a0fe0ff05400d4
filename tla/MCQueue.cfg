SPECIFICATION Spec
CONSTANTS
    Requests = {1, 2, 3, 4}
    InLengths = {1, 4}
    OutLengths = {1, 3}
    Kinds = {"flash", "padded"}
    MaxSequenceLength = 5
    WeightLimit = 12
    SizeLimit = 4
    PaddingLimit = 40
    Scale = 2
    NextTokenGradient = 3
    PrefillGradient = 5
    QuadraticCoef1 = 0
    QuadraticCoef2 = 1
    Cutoff = 1
    MaxTime = 2
INVARIANTS
    WithinWeightLimit
    PrefillFits
    NextBatchProgress
PROPERTIES
    CutoffRespected
