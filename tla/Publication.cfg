\* Documents computed anew for every request, while imports, statements and expiries change them.
SPECIFICATION Spec
CONSTANTS
    None = None
    l1 = l1
    l2 = l2
    Recipes <- MCRecipes
    Layers = {l1, l2}
    Assessments <- MCAssessments
    Statements <- MCStatements
    MaxBuilds = 2
    MaxVex = 1
    MaxEvents = 1
SYMMETRY LayerSymmetry
INVARIANTS
    DocumentsNotOlder
    SetAgreesWithGate
    UnreadableIsNotServed
    NamedIsServed
    EndpointAgrees
