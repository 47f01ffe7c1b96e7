\* Concurrent imports of one recipe, with edits, sweeps, aborts and crashes in between.
SPECIFICATION Spec
CONSTANTS
    None = None
    Torn = Torn
    strict = strict
    lenient = lenient
    clean = clean
    flawed = flawed
    l1 = l1
    l2 = l2
    junk = junk
    b1 = b1
    b2 = b2
    p1 = p1
    Recipes = {strict}
    Policy <- MCPolicy
    Sources = {clean}
    Layers = {l1, l2, junk}
    ValidLayers = {l1, l2}
    Trees <- AllTrees
    SourceFindings <- MCSourceFindings
    LayerFindings <- MCLayerFindings
    Assessments <- MCAssessments
    Statements <- MCStatements
    Builders = {b1, b2}
    Pullers = {}
    MaxBuilds = 2
    MaxVex = 1
SYMMETRY BuilderSymmetry
INVARIANTS
    TypeOK
    EvidenceBound
    QuarantineIsPermanent
