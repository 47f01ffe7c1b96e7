\* Concurrent posts of equal and of competing recipes, with hang-ups and restarts.
SPECIFICATION FairSpec
CONSTANTS
    None = None
    c1 = c1
    c2 = c2
    tool = tool
    v1 = v1
    Inputs <- MCInputs
    Creators = {c1, c2}
    MaxRecipes = 3
INVARIANTS
    LookupIsExact
    AnsweredResolves
    ConfigsKnown
PROPERTIES
    StaysResolvable
    RestartMovesOnlyRaces
    CreatesAnswered
