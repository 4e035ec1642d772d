SPECIFICATION MCSpec
CONSTANTS
    TopkMax = 5
    MaxHeads = 2
    Keys = {0, 1, 2, 3, 4, 5}
    MaxScore = 1
    SmallLimits = {0, 1, 2, 6}
    SmallKeys = {0, 1, 2}
    SmallScores = {0, 1}
INVARIANTS HeapIsTopK SortedSelection
PROPERTIES ImplementsCore
