CONSTANTS
    p1 = p1  p2 = p2
    MaxV = 60  ErrorSpan = 30
    MaxTiles = 3
    MaxCalls = 2
    Ports = {p1, p2}
    TileOutcomes <- MCTiles
    DmaOutcomes <- MCDma
    InvalidCodes <- MCInvalid
SPECIFICATION Spec
SYMMETRY Symmetry
INVARIANTS TypeOK CostExact FailureSurfaces ChannelsBalanced DetailedFresh BestStrategyWins BatchVerdict
