--------------------------- MODULE MCMaterialization ---------------------------
(***************************************************************************)
(* Small instances of Materialization for TLC.                             *)
(***************************************************************************)
EXTENDS Materialization, TLC

CONSTANTS strict, lenient,   \* two recipes
          clean, flawed,     \* two source trees: one without findings, one the intake denies
          l1, l2, junk,      \* two layer tars, and a file that is none
          b1, b2, p1

\* Every tree there is; and, with two recipes, a layer that one of them rebuilds.
AllTrees == [r \in Recipes |-> Tree]
RebuiltLayer ==
    [r \in Recipes |-> [src: {clean}, layer: IF r = strict THEN {l1, l2} ELSE {l1}]]

\* A recipe of good SLSA posture that declares a layer.
Posture(r) ==
    [digest |-> r, immutable_revision |-> TRUE, builder_sha256 |-> TRUE,
     materials_digested |-> TRUE, durable_metadata_only |-> TRUE, declares_artifact |-> TRUE,
     allow_external_vex_overrides |-> FALSE, retain_artifact |-> FALSE, expiring |-> TRUE]

\* The strict recipe admits no external exceptions; the lenient one does and always retains.
MCPolicy ==
    [r \in Recipes |-> IF r = strict THEN Posture(r)
                       ELSE [Posture(r) EXCEPT !.allow_external_vex_overrides = TRUE,
                                               !.retain_artifact = TRUE]]

Finding(category, severity, mentions) ==
    [category |-> category, severity |-> severity, mentions |-> mentions, evidence |-> "bin"]

MCSourceFindings ==
    [s \in Sources |-> IF s = flawed THEN {Finding("secret", "high", {})} ELSE {}]

\* The inspection of a layer finds a vulnerable component in l2.
MCLayerFindings ==
    [l \in Layers |-> IF l = l2 THEN {Finding("known-vulnerability", "high", {"cve"})} ELSE {}]

Assessed(status) ==
    {[vulnerability |-> "cve", component |-> "lib", evidence |-> "bin", status |-> status]}

\* What the autonomous assessment of that component may conclude.
MCAssessments == {Assessed("not_affected"), Assessed("under_investigation")}

Statement(recipe, status) ==
    [recipe_digest |-> recipe, vulnerability |-> "cve", product |-> l1, component |-> "lib",
     status |-> status, evidenced |-> TRUE, expires_at |-> 1]

MCStatements == {Statement(r, status) : r \in Recipes, status \in {"affected", "not_affected"}}

BuilderSymmetry == Permutations(Builders)
=============================================================================
