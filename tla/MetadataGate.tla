---------------------------- MODULE MetadataGate ----------------------------
(***************************************************************************)
(* The registry's verdict (src/gate.rs and the SLSA and VEX posture of     *)
(* src/metadata.rs): what evidence allows a materialisation and what       *)
(* denies it.  Pure operators: a recipe, the latest build record that is   *)
(* not a plan, the scan bound to it and the administrative VEX statements  *)
(* go in, the set of reasons to deny comes out.                            *)
(*                                                                         *)
(* Digests are collision free and are therefore modelled by the thing      *)
(* digested; a Rust None is the constant None.                             *)
(***************************************************************************)
EXTENDS Naturals, Sequences

CONSTANT None   \* the absent value of every optional field

(***************************************************************************)
(* Categories of src/metadata.rs slsa_policy_findings.  Every finding it   *)
(* makes is of severity High (slsa_finding), so each one denies.           *)
(***************************************************************************)
SlsaCategories ==
    {"slsa-unpinned-source", "slsa-unpinned-builder", "slsa-undigested-material",
     "slsa-durable-metadata-disabled", "slsa-stale-scan-evidence",
     "slsa-missing-scan-evidence", "slsa-stale-build-evidence", "slsa-build-failed",
     "slsa-incomplete-build-timestamps", "slsa-missing-source-scan-binding",
     "slsa-artifact-not-fingerprinted", "slsa-unscanned-artifact"}

\* What a recipe lacks on its own, whatever was built from it.
RecipeDefect(c, recipe) ==
    \/ c = "slsa-unpinned-source" /\ ~recipe.immutable_revision
    \/ c = "slsa-unpinned-builder" /\ ~recipe.builder_sha256
    \/ c = "slsa-undigested-material" /\ ~recipe.materials_digested
    \/ c = "slsa-durable-metadata-disabled" /\ ~recipe.durable_metadata_only

ScanDefect(c, recipe, scan) ==
    \/ c = "slsa-missing-scan-evidence" /\ scan = None
    \/ /\ c = "slsa-stale-scan-evidence"
       /\ scan # None
       /\ scan.recipe_digest # recipe.digest

CoversArtifact(scan, digest) == scan # None /\ digest \in scan.layers

BuildDefect(c, recipe, build, scan) ==
    /\ build # None
    /\ \/ c = "slsa-stale-build-evidence" /\ build.recipe_digest # recipe.digest
       \/ c = "slsa-build-failed" /\ build.status = "failed"
       \/ c = "slsa-incomplete-build-timestamps" /\ ~build.timestamped
       \/ /\ c = "slsa-missing-source-scan-binding"
          /\ build.source_scan_id = None \/ build.source_scan_digest = None
       \/ /\ c = "slsa-artifact-not-fingerprinted"
          /\ recipe.declares_artifact /\ build.status = "succeeded" /\ build.artifact = None
       \/ /\ c = "slsa-unscanned-artifact"
          /\ build.status = "succeeded" /\ build.artifact # None
          /\ ~CoversArtifact(scan, build.artifact.digest)

slsa_policy_findings(recipe, build, scan) ==
    {c \in SlsaCategories : \/ RecipeDefect(c, recipe)
                            \/ ScanDefect(c, recipe, scan)
                            \/ BuildDefect(c, recipe, build, scan)}

-----------------------------------------------------------------------------
(***************************************************************************)
(* Administrative VEX statements, oldest first, as the store keeps them.   *)
(***************************************************************************)
SameVexKey(s, t) ==
    /\ s.vulnerability = t.vulnerability
    /\ s.product = t.product
    /\ s.component = t.component

\* Per (vulnerability, product, component), the newest statement about this recipe.
effective_vex_statements(recipe, vex) ==
    {vex[i] : i \in {j \in 1..Len(vex) :
        /\ vex[j].recipe_digest = recipe.digest
        /\ \A k \in (j + 1)..Len(vex) :
              ~(vex[k].recipe_digest = recipe.digest /\ SameVexKey(vex[j], vex[k]))}}

\* The author, justification and detail of an exception are there and not empty.
ExceptionFor(recipe, candidate, product, s) ==
    /\ s.recipe_digest = recipe.digest
    /\ s.vulnerability = candidate.vulnerability
    /\ s.component = candidate.component
    /\ s.product = product
    /\ s.evidenced

vex_statement_is_unexpired(s, now) == s.expires_at # None /\ s.expires_at > now

\* An exception lifts an inconclusive assessment only, and only if the newest
\* statement with full evidence about exactly this artifact is an unexpired
\* not_affected.
vex_resolves_candidate(recipe, candidate, vex, build, now) ==
    /\ recipe.allow_external_vex_overrides
    /\ candidate.status = "under_investigation"
    /\ build # None
    /\ build.artifact # None
    /\ \E i \in 1..Len(vex) :
          /\ ExceptionFor(recipe, candidate, build.artifact.digest, vex[i])
          /\ \A j \in (i + 1)..Len(vex) :
                ~ExceptionFor(recipe, candidate, build.artifact.digest, vex[j])
          /\ vex[i].status = "not_affected"
          /\ vex_statement_is_unexpired(vex[i], now)

-----------------------------------------------------------------------------
(***************************************************************************)
(* Findings and autonomous assessments of the scan.  finding.mentions are  *)
(* the vulnerability identifiers its message contains.                     *)
(***************************************************************************)
finding_denies(finding) == finding.severity \in {"high", "critical"}

finding_matches_vex_candidate(finding, candidate) ==
    /\ candidate.vulnerability \in finding.mentions
    /\ candidate.evidence = finding.evidence

\* An OSV finding that an assessment answers for is left to the assessment.
AnsweredByAssessment(finding, scan) ==
    /\ finding.category = "known-vulnerability"
    /\ \E a \in scan.assessments : finding_matches_vex_candidate(finding, a)

assessment_is_bound_to_artifact(scan, build) ==
    /\ build # None
    /\ build.artifact # None
    /\ build.artifact.digest \in scan.layers

AssessmentDenies(recipe, a, scan, vex, build, now) ==
    /\ ~vex_resolves_candidate(recipe, a, vex, build, now)
    /\ \/ a.status \in {"affected", "under_investigation"}
       \/ ~assessment_is_bound_to_artifact(scan, build)

-----------------------------------------------------------------------------
(***************************************************************************)
(* The verdict.                                                            *)
(***************************************************************************)
Denies(recipe, build, scan, vex, now) ==
    \/ slsa_policy_findings(recipe, build, scan) # {}
    \/ \E s \in effective_vex_statements(recipe, vex) :
          s.status \in {"affected", "under_investigation"}
    \/ /\ scan # None
       /\ \/ \E f \in scan.findings : finding_denies(f) /\ ~AnsweredByAssessment(f, scan)
          \/ \E a \in scan.assessments : AssessmentDenies(recipe, a, scan, vex, build, now)

evaluate_gate(recipe, build, scan, vex, now) ==
    IF Denies(recipe, build, scan, vex, now) THEN "denied" ELSE "allowed"

\* Intake judges the source tree before any byte is copied: OSV matches are left
\* to the inspection of the exact layer, everything else counts.
IntakeView(scan) ==
    [scan EXCEPT !.findings = {f \in @ : f.category # "known-vulnerability"},
                 !.assessments = {}]

evaluate_artifact_intake_gate(recipe, scan) ==
    evaluate_gate(recipe, None, IntakeView(scan), << >>, 0)

-----------------------------------------------------------------------------
(***************************************************************************)
(* POST /v1/recipes/:id/vex (add_vex): which statements are accepted.      *)
(***************************************************************************)
AcceptsVex(recipe, build, s, now) ==
    /\ s.recipe_digest = recipe.digest
    /\ s.status # "fixed"
    /\ s.status = "not_affected" =>
          /\ recipe.allow_external_vex_overrides
          /\ s.component # None
          /\ s.evidenced
          /\ vex_statement_is_unexpired(s, now)
          /\ build # None
          /\ build.artifact # None
          /\ s.product = build.artifact.digest
=============================================================================
