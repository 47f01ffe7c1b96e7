\* A denied layer is streamed when an approved import overtakes the request (README.md:498).
SPECIFICATION Spec
CONSTANTS
    None = None
    Torn = Torn
    strict = strict
    lenient = lenient
    clean = clean
    flawed = flawed
    l1 = l1
    l2 = l2
    junk = junk
    b1 = b1
    b2 = b2
    p1 = p1
    Recipes = {strict}
    Policy <- MCPolicy
    Sources = {clean}
    Layers = {l1, l2}
    ValidLayers = {l1, l2}
    Trees <- RebuiltLayer
    SourceFindings <- MCSourceFindings
    LayerFindings <- MCLayerFindings
    Assessments <- MCAssessments
    Statements <- MCStatements
    Builders = {b1}
    Pullers = {p1}
    MaxBuilds = 2
    MaxVex = 0
INVARIANTS
    QuarantineHolds
