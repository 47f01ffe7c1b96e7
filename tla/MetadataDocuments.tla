-------------------------- MODULE MetadataDocuments --------------------------
(***************************************************************************)
(* What the registry publishes about a recipe (src/metadata.rs): the       *)
(* combined VEX statements and the documents that are attached to an image *)
(* manifest.  Pure operators, like those of MetadataGate; a document is    *)
(* the record of what its text depends on, and so is its digest.           *)
(***************************************************************************)
EXTENDS MetadataGate

(***************************************************************************)
(* VEX statements.                                                         *)
(***************************************************************************)
\* The layer a scan is about; the inspection of a retained layer is about exactly one.
artifact_product(scan) ==
    IF scan = None \/ scan.layers = {} THEN None ELSE CHOOSE l \in scan.layers : TRUE

external_statement_is_active(recipe, s, product, now) ==
    /\ s.recipe_digest = recipe.digest
    /\ \/ s.status \in {"affected", "under_investigation"}
       \/ /\ s.status = "not_affected"
          /\ recipe.allow_external_vex_overrides
          /\ s.product = product
          /\ s.component # None
          /\ s.evidenced
          /\ vex_statement_is_unexpired(s, now)

\* A statement about every product overrides one about any product.
Overrides(s, t) ==
    /\ s.vulnerability = t.vulnerability
    /\ s.component = t.component
    /\ s.product \in {None, t.product}

\* Mutant: a statement stays in the document when a newer one supersedes it.
ActiveAtAny(recipe, vex, product, now) ==
    {i \in 1..Len(vex) : external_statement_is_active(recipe, vex[i], product, now)}

\* Positions of the newest statement per key, as far as they are active.
ActiveAt(recipe, vex, product, now) ==
    {i \in 1..Len(vex) :
        /\ external_statement_is_active(recipe, vex[i], product, now)
        /\ \A j \in (i + 1)..Len(vex) :
              ~(vex[j].recipe_digest = recipe.digest /\ SameVexKey(vex[i], vex[j]))}

Published(s, product) ==
    [vulnerability |-> s.vulnerability, component |-> s.component, product |-> product,
     status |-> s.status]

Autonomous(recipe, scan) ==
    IF scan = None THEN {}
    ELSE {Published(a, IF scan.layers = {} THEN recipe.digest ELSE artifact_product(scan)) :
             a \in scan.assessments}

\* Statuses published per vulnerability, component and product: the autonomous assessments
\* and, instead of what they override, the active external statements.
combined_vex_statements(recipe, scan, vex, now) ==
    LET active == ActiveAt(recipe, vex, artifact_product(scan), now)
    IN  {a \in Autonomous(recipe, scan) : \A i \in active : ~Overrides(vex[i], a)}
        \cup {Published(vex[i], vex[i].product) :
                 i \in {i \in active : \A j \in active : j > i => ~Overrides(vex[j], vex[i])}}

-----------------------------------------------------------------------------
(***************************************************************************)
(* The documents.  `about` is the recipe, or the scan a document was       *)
(* generated from.                                                         *)
(***************************************************************************)
sbom_document(recipe) == [type |-> "sbom", recipe |-> recipe.digest, about |-> recipe.digest]
cbom_document(recipe) == [type |-> "cbom", recipe |-> recipe.digest, about |-> recipe.digest]

sbom_of(recipe, scan) ==
    IF scan = None THEN sbom_document(recipe)
    ELSE [type |-> "sbom", recipe |-> recipe.digest, about |-> scan.id]

cbom_of(recipe, scan) ==
    IF scan = None THEN cbom_document(recipe)
    ELSE [type |-> "cbom", recipe |-> recipe.digest, about |-> scan.id]

openvex_document(recipe, statements) ==
    [type |-> "openvex", recipe |-> recipe.digest, statements |-> statements]

\* The digests an attestation gives are those of the recipe's own SBOM and CBOM.
attestation_document(recipe, build, statements) ==
    [type |-> "attestation", recipe |-> recipe.digest,
     build |-> IF build = None THEN None ELSE build.id,
     metadata |-> <<sbom_document(recipe), cbom_document(recipe),
                    openvex_document(recipe, statements)>>]

slsa_provenance_document(recipe, build, scan, statements) ==
    [type |-> "slsa", recipe |-> recipe.digest,
     build |-> IF build = None THEN None ELSE build.id,
     artifact |-> IF build = None \/ build.artifact = None THEN None ELSE build.artifact.digest,
     scan |-> IF scan = None THEN None ELSE scan.id,
     source_scan |-> IF build = None THEN None ELSE build.source_scan_id,
     findings |-> slsa_policy_findings(recipe, build, scan),
     byproducts |-> <<sbom_of(recipe, scan), cbom_of(recipe, scan),
                      openvex_document(recipe, statements)>>]

\* The source scan is read again, after everything else.
verified_slsa_provenance_document(recipe, build, scan, statements, binding_error) ==
    LET document == slsa_provenance_document(recipe, build, scan, statements)
    IN  IF binding_error
        THEN [document EXCEPT !.findings = @ \cup {"slsa-invalid-source-scan-binding"}]
        ELSE document

\* The set that metadata_documents publishes.
documents_of(recipe, build, scan, vex, now, binding_error) ==
    LET statements == combined_vex_statements(recipe, scan, vex, now)
    IN  {sbom_of(recipe, scan), cbom_of(recipe, scan), openvex_document(recipe, statements),
         verified_slsa_provenance_document(recipe, build, scan, statements, binding_error),
         attestation_document(recipe, build, statements)}
=============================================================================
