----------------------------- MODULE MCVexLedger -----------------------------
(***************************************************************************)
(* A small instance of VexLedger for TLC: three layers, in which the       *)
(* inspection found no vulnerability, could not decide about one, or found *)
(* the artifact affected.                                                  *)
(***************************************************************************)
EXTENDS VexLedger, TLC

CONSTANTS good, open, bad, p1, p2

MCRecipe ==
    [digest |-> "recipe", immutable_revision |-> TRUE, builder_sha256 |-> TRUE,
     materials_digested |-> TRUE, durable_metadata_only |-> TRUE, declares_artifact |-> TRUE,
     allow_external_vex_overrides |-> TRUE]

Assessment(status) ==
    {[vulnerability |-> "cve", component |-> "lib", evidence |-> "bin", status |-> status]}

MCAssessed ==
    [l \in Layers |-> IF l = good THEN {}
                      ELSE Assessment(IF l = open THEN "under_investigation" ELSE "affected")]

Input(status, product, component, expires_at) ==
    [id |-> 0, recipe_digest |-> "recipe", vulnerability |-> "cve", status |-> status,
     product |-> product, component |-> component, evidenced |-> expires_at # None,
     expires_at |-> expires_at]

\* A general warning, one about a component of one layer, and exceptions for each layer.
MCInputs ==
    {Input("affected", None, "lib", None), Input("affected", good, "lib", None)}
    \cup {Input("not_affected", l, "lib", 2) : l \in Layers}

PosterSymmetry == Permutations(Posters)
=============================================================================
