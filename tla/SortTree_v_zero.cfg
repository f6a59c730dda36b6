SPECIFICATION Spec
CONSTANTS
    Ids = {0, 1, 5, 6, 9}
    Estimates <- EstimatesSmall
    Designs <- DesignsSmall
    Files = {{1, 5, 6}}
    MaxIds = 3
    MaxTransforms = 2
INVARIANTS
    ZeroSurvives
