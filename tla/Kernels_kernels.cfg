SPECIFICATION Spec
CONSTANTS
    GraphSet <- GraphsSmall
    Source = 0
    Teams = {{0}, {0, 1}}
    EdgeNums = {1, 4}
    Alphas = {1, 15}
    Beta = 3
    BufferSize = 1
    Places <- PlacesSmall
    WeightSet <- WeightsSmall
    Delta = 2
    Chunk = 1
    Fusible = 2
INVARIANTS
    
    ComponentsCorrect
    
    TrianglesExact
PROPERTY KernelsReturn
