\* Every accepted import is answered, also when others are aborted inside the evidence lock.
SPECIFICATION FairSpec
CONSTANTS
    None = None
    Torn = Torn
    strict = strict
    lenient = lenient
    clean = clean
    flawed = flawed
    l1 = l1
    l2 = l2
    junk = junk
    b1 = b1
    b2 = b2
    p1 = p1
    Recipes = {strict}
    Policy <- MCPolicy
    Sources = {clean, flawed}
    Layers = {l1}
    ValidLayers = {l1}
    Trees <- AllTrees
    SourceFindings <- MCSourceFindings
    LayerFindings <- MCLayerFindings
    Assessments <- MCAssessments
    Statements <- MCStatements
    Builders = {b1, b2}
    Pullers = {}
    MaxBuilds = 2
    MaxVex = 0
PROPERTIES
    BuildsAnswered
