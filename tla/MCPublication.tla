---------------------------- MODULE MCPublication ----------------------------
(***************************************************************************)
(* A small instance of Publication for TLC: two recipes of one name, one   *)
(* of which admits exceptions and lets its artifacts expire.               *)
(***************************************************************************)
EXTENDS Publication, TLC

CONSTANTS l1, l2

Recipe(r, exceptions) ==
    [digest |-> r, immutable_revision |-> TRUE, builder_sha256 |-> TRUE,
     materials_digested |-> TRUE, durable_metadata_only |-> TRUE, declares_artifact |-> TRUE,
     allow_external_vex_overrides |-> exceptions, expiring |-> exceptions]

MCRecipes == <<Recipe(1, TRUE), Recipe(2, FALSE)>>

Open == [vulnerability |-> "cve", component |-> "lib", evidence |-> "bin",
         status |-> "under_investigation"]

MCAssessments == {{}, {Open}}

Statement(r, status, product, expires_at) ==
    [recipe_digest |-> r, vulnerability |-> "cve", status |-> status, product |-> product,
     component |-> "lib", evidenced |-> expires_at # None, expires_at |-> expires_at]

MCStatements ==
    {Statement(2, "affected", None, None)} \cup {Statement(1, "not_affected", l, 1) : l \in Layers}

LayerSymmetry == Permutations(Layers)

=============================================================================
