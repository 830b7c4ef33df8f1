SPECIFICATION Spec
CONSTANTS
    s1 = s1
    s2 = s2
    Sessions = {s1, s2}
    Names = {"ann", "bob"}
    Password0 = "good"
    None = "nobody"
    Scenarios <- Typing
    LineMax = 2
    PppSize = 3
    QueryTicks = 2
    MaxSelect = 5
    Cards = {1, 10}
    Secret = {"M", "O"}
    Letters = {"M", "O", "X", "Y", "Z"}
    MaxMisses = 2
    SpaceCredits = 45
    MaxCargo = 2
    Ports = {1, 5, 12}
    Hits = {1, 8}
    Gains = {4, 15}
CHECK_DEADLOCK FALSE
INVARIANTS
    EarlyFrameWhole
    InsideIsSomebody
    OneRowEach
    GamesInBounds
    SavedGame
