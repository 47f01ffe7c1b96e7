\* A stored warning stays silenced by an exception that has expired (README.md:119).
SPECIFICATION Spec
CONSTANTS
    None = None
    good = good
    open = open
    bad = bad
    p1 = p1
    p2 = p2
    Recipe <- MCRecipe
    Layers = {good, open, bad}
    Assessed <- MCAssessed
    Inputs <- MCInputs
    Posters = {p1, p2}
    MaxPosts = 3
    MaxTime = 2
SYMMETRY PosterSymmetry
INVARIANTS
    ExceptionsExpire
