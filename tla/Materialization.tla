--------------------------- MODULE Materialization ---------------------------
(***************************************************************************)
(* From a source tree to streamed layer bytes: POST .../builds with        *)
(* execute = true (create_build), the evidence it persists (src/store.rs), *)
(* and the OCI manifest and blob reads that serve a retained layer         *)
(* (src/app.rs).  Handlers run concurrently on the async runtime; every    *)
(* await on the store, the cache directory or a scanner worker is a step   *)
(* of its own here.  A client may hang up between any two steps and the    *)
(* process may be killed; files survive, handlers do not.                  *)
(*                                                                         *)
(* Time is abstract: `clock` only orders the created_at stamps, an artifact*)
(* with an expiry may expire at any moment and the hourly sweep may remove *)
(* any cached file (CacheRetention has the seconds).  A JSON record is     *)
(* written to a temporary name and renamed, so saving it is one step.  A   *)
(* walk of the source tree or of an unpacked layer sees one state of it.   *)
(***************************************************************************)
EXTENDS MetadataGate, FiniteSets

CONSTANTS
    Recipes,         \* recipe digests; a recipe never changes once stored
    Policy,          \* [Recipes -> recipe record of MetadataGate]
    Sources,         \* what the checked-out tree holds beside the layer file
    Layers,          \* contents of layer tars, each standing for its digest
    ValidLayers,     \* those that pass the size and tar checks of intake
    Trees,           \* [Recipes -> the source trees developers check out for it]
    SourceFindings,  \* [Sources -> findings of a source scan]
    LayerFindings,   \* [Layers -> findings of an unpacked layer]
    Assessments,     \* the sets of vulnerability assessments a layer scan may end with
    Statements,      \* administrative VEX statements clients post
    Builders,        \* concurrent create_build requests
    Pullers,         \* concurrent OCI manifest and blob requests
    MaxBuilds,       \* bound: build requests accepted in a behaviour
    MaxVex,          \* bound: VEX statements stored per recipe
    Torn             \* what a cached file may hold after a power loss

\* The source tree of a recipe; its filesystem digest is the tree itself.
Tree == [src: Sources, layer: Layers \cup {None}]
\* An unpacked layer is inventoried too, under its own root.
Rootfs == [layer: Layers]

Findings == UNION ({SourceFindings[s] : s \in Sources} \cup {LayerFindings[l] : l \in Layers})

Scan == [id: Nat, recipe_digest: Recipes, mode: {"source", "filesystem"},
         filesystem_digest: Tree \cup Rootfs, declared_artifact_digest: Layers \cup {None},
         layers: SUBSET Layers, findings: SUBSET Findings, assessments: Assessments \cup {{}}]

ArtifactRef == [digest: Layers, retained: BOOLEAN, expires: BOOLEAN]

Verdict == {"allowed", "denied"}

BuildRecord ==
    [id: Nat, recipe_digest: Recipes, status: {"planned", "succeeded", "failed"},
     created_at: Nat, timestamped: BOOLEAN,
     source_scan_id: Nat \cup {None}, source_scan_digest: Scan \cup {None},
     artifact_scan_id: Nat \cup {None}, artifact: ArtifactRef \cup {None},
     policy_decision: Verdict \cup {None}]

ASSUME MaterializationAssumption ==
    /\ \A r \in Recipes : Policy[r].digest = r
    /\ \A r \in Recipes : Policy[r].retain_artifact \in BOOLEAN
    /\ \A r \in Recipes : Policy[r].expiring \in BOOLEAN
    /\ \A r \in Recipes : Policy[r].declares_artifact \in BOOLEAN
    /\ ValidLayers \subseteq Layers
    /\ Trees \in [Recipes -> SUBSET Tree]
    /\ MaxBuilds \in Nat /\ MaxVex \in Nat

\* VexStatus of src/models.rs: a posted statement has one of four statuses.
ASSUME StatementAssumption ==
    \A s \in Statements :
        s.status \in {"not_affected", "affected", "fixed", "under_investigation"}

\* None is no value of a field that may be absent.
ASSUME NoneAssumption ==
    /\ None \notin Layers
    /\ Torn \notin Layers
    /\ Torn # None
    /\ None \notin Recipes
    /\ None \notin Nat
    /\ None \notin Verdict
    /\ None \notin Scan
    /\ None \notin ArtifactRef
    /\ None \notin BuildRecord

VARIABLES
    tree,      \* [Recipes -> Tree], edited by developers, not by the registry
    cache,     \* cache/<digest>: content of the file named by each digest, None when absent
    scans,     \* scans/<recipe>/<id>.json
    builds,    \* builds/<recipe>/<id>.json
    vex,       \* vex/<recipe>.json, oldest statement first
    expired,   \* ids of the builds whose artifact is past its expires_at
    clock,     \* next timestamp, and next fresh id
    accepted,  \* build requests accepted so far
    evidence,  \* holder of Store::evidence_lock, or None
    job,       \* [Builders -> state of a create_build handler]
    pull       \* [Pullers -> state of an OCI read handler]

vars == <<tree, cache, scans, builds, vex, expired, clock, accepted, evidence, job, pull>>

-----------------------------------------------------------------------------
(***************************************************************************)
(* Local state of the two kinds of handler.                                *)
(***************************************************************************)
Job == [pc: {"idle", "scan", "intake", "copy", "digest", "publish", "existing", "recheck",
             "inspect", "decide", "save_scan", "commit", "record"},
        recipe: Recipes \cup {None}, cache_artifact: BOOLEAN,
        source: Scan \cup {None},       \* the source scan of this request
        started: Nat,                   \* started_at, which becomes created_at
        bytes: Layers \cup {None},      \* the private copy, then its digest
        artifact: ArtifactRef \cup {None},
        scan: Scan \cup {None},         \* the scan of the retained layer
        decision: Verdict \cup {None}]

IdleJob == [pc |-> "idle", recipe |-> None, cache_artifact |-> FALSE, source |-> None,
            started |-> 0, bytes |-> None, artifact |-> None, scan |-> None,
            decision |-> None]

Pull == [pc: {"idle", "layer", "verify", "gate", "judge", "open", "served"},
         kind: {"manifest", "blob"}, want: Layers \cup {None},
         todo: SUBSET Recipes,              \* recipes of the name not tried yet
         recipe: Recipes \cup {None},
         layer: BuildRecord \cup {None},    \* build whose layer was selected
         gated: BuildRecord \cup {None},    \* build the gate looked at
         bytes: Layers \cup {None}]         \* content of the opened file

IdlePull == [pc |-> "idle", kind |-> "blob", want |-> None, todo |-> {}, recipe |-> None,
             layer |-> None, gated |-> None, bytes |-> None]

TypeOK ==
    /\ tree \in [Recipes -> Tree]
    /\ cache \in [Layers -> Layers \cup {None, Torn}]
    /\ scans \subseteq Scan
    /\ builds \subseteq BuildRecord
    /\ vex \in [Recipes -> Seq(Statements)]
    /\ expired \subseteq Nat
    /\ clock \in Nat /\ accepted \in Nat
    /\ evidence \in Builders \cup {None}
    /\ job \in [Builders -> Job]
    /\ pull \in [Pullers -> Pull]

Init ==
    /\ tree \in {t \in [Recipes -> Tree] : \A r \in Recipes : t[r] \in Trees[r]}
    /\ cache = [d \in Layers |-> None]
    /\ scans = {} /\ builds = {}
    /\ vex = [r \in Recipes |-> << >>]
    /\ expired = {}
    /\ clock = 1 /\ accepted = 0
    /\ evidence = None
    /\ job = [b \in Builders |-> IdleJob]
    /\ pull = [p \in Pullers |-> IdlePull]

-----------------------------------------------------------------------------
(***************************************************************************)
(* Reading the store.                                                      *)
(***************************************************************************)
RecordsOf(r) == {b \in builds : b.recipe_digest = r}

\* Evidence of the registry's latest import: the newest record that is no plan.
IsLatest(r, b) ==
    /\ b \in RecordsOf(r) /\ b.status # "planned"
    /\ \A c \in RecordsOf(r) : c.status # "planned" => c.created_at <= b.created_at

latest_build_evidence(r) ==
    IF \E b \in builds : IsLatest(r, b) THEN CHOOSE b \in builds : IsLatest(r, b) ELSE None

IsLatestScan(r, s) ==
    s.recipe_digest = r /\ \A t \in scans : t.recipe_digest = r => t.id <= s.id

latest_scan(r) ==
    IF \E s \in scans : IsLatestScan(r, s) THEN CHOOSE s \in scans : IsLatestScan(r, s) ELSE None

StoredScan(r, id) ==
    LET found == {s \in scans : s.recipe_digest = r /\ s.id = id}
    IN  IF found = {} THEN None ELSE CHOOSE s \in found : TRUE

BoundToScan(build) == build # None /\ build.artifact_scan_id # None

\* Mutant: the gate looks at the newest scan of the recipe instead of the bound one.
load_decision_scan_unbound(r, build) == latest_scan(r)

load_decision_scan(r, build) ==
    IF BoundToScan(build) THEN StoredScan(r, build.artifact_scan_id) ELSE latest_scan(r)

source_scan_binding_error(r, build) ==
    /\ build # None
    /\ build.source_scan_id # None
    /\ build.source_scan_digest # None
    /\ LET s == StoredScan(r, build.source_scan_id)
       IN  s = None \/ s.mode # "source" \/ s # build.source_scan_digest

\* metadata_gate and enforce_manifest_gate, given the build record they read first.
metadata_gate(r, build) ==
    IF \/ BoundToScan(build) /\ load_decision_scan(r, build) = None
       \/ source_scan_binding_error(r, build)
    THEN "denied"
    ELSE evaluate_gate(Policy[r], build, load_decision_scan(r, build), vex[r], 0)

\* latest_materialized_layer up to the point where it opens the file.
HasLayerToServe(build) ==
    /\ build # None
    /\ build.status = "succeeded"
    /\ build.artifact # None
    /\ build.artifact.retained
    /\ build.id \notin expired

\* Mutant: presence of the file is taken for its integrity.
validate_existing_cached_layer_presence(digest) == cache[digest] # None

\* validate_existing_cached_layer: the file is there and hashes to its own name.
validate_existing_cached_layer(digest) == cache[digest] = digest

-----------------------------------------------------------------------------
(***************************************************************************)
(* create_build.                                                           *)
(***************************************************************************)
Step(b, from) == job[b].pc = from
Goto(b, to) == [job EXCEPT ![b].pc = to]
Abandon(b) == [job EXCEPT ![b] = IdleJob]

Stamp == clock' = clock + 1

\* A request for a plan only: one record, no scan, no bytes.
PlanBuild(b, r) ==
    /\ Step(b, "idle")
    /\ accepted < MaxBuilds
    /\ accepted' = accepted + 1
    /\ builds' = builds \cup
          {[id |-> clock, recipe_digest |-> r, status |-> "planned", created_at |-> clock,
            timestamped |-> FALSE, source_scan_id |-> None, source_scan_digest |-> None,
            artifact_scan_id |-> None, artifact |-> None, policy_decision |-> None]}
    /\ Stamp
    /\ UNCHANGED <<tree, cache, scans, vex, expired, evidence, job, pull>>

StartBuild(b, r, cache_artifact) ==
    /\ Step(b, "idle")
    /\ accepted < MaxBuilds
    /\ accepted' = accepted + 1
    /\ job' = [job EXCEPT ![b] = [IdleJob EXCEPT !.pc = "scan", !.recipe = r,
                                                 !.cache_artifact = cache_artifact]]
    /\ UNCHANGED <<tree, cache, scans, builds, vex, expired, clock, evidence, pull>>

SourceScan(r) ==
    [id |-> clock, recipe_digest |-> r, mode |-> "source", filesystem_digest |-> tree[r],
     declared_artifact_digest |-> IF Policy[r].declares_artifact THEN tree[r].layer ELSE None,
     layers |-> {}, findings |-> SourceFindings[tree[r].src], assessments |-> {}]

\* scan_recipe_excluding and save_scan.
ScanSource(b) ==
    /\ Step(b, "scan")
    /\ LET s == SourceScan(job[b].recipe)
       IN  /\ scans' = scans \cup {s}
           /\ job' = [job EXCEPT ![b].pc = "intake", ![b].source = s]
    /\ Stamp
    /\ UNCHANGED <<tree, cache, builds, vex, expired, accepted, evidence, pull>>

IntakeVerdict(b) == evaluate_artifact_intake_gate(Policy[job[b].recipe], job[b].source)

\* A record of this request, as far as it came.
Record(j, id, status, scan_id) ==
    [id |-> id, recipe_digest |-> j.recipe, status |-> status, created_at |-> id,
     timestamped |-> TRUE, source_scan_id |-> j.source.id, source_scan_digest |-> j.source,
     artifact_scan_id |-> scan_id, artifact |-> j.artifact, policy_decision |-> j.decision]

\* The intake gate denies: the denial is recorded, stamped now, and answered with 403.
DenyIntake(b) ==
    /\ Step(b, "intake")
    /\ IntakeVerdict(b) = "denied"
    /\ builds' = builds \cup
          {Record([job[b] EXCEPT !.decision = "denied"], clock, "failed", None)}
    /\ job' = Abandon(b)
    /\ Stamp
    /\ UNCHANGED <<tree, cache, scans, vex, expired, accepted, evidence, pull>>

\* execute_build begins; its start time becomes created_at of the record.
StartImport(b) ==
    /\ Step(b, "intake")
    /\ IntakeVerdict(b) = "allowed"
    /\ job' = [job EXCEPT ![b].pc = "copy", ![b].started = clock]
    /\ Stamp
    /\ UNCHANGED <<tree, cache, scans, builds, vex, expired, accepted, evidence, pull>>

Retained(b) == job[b].cache_artifact \/ Policy[job[b].recipe].retain_artifact

DeclaredLayer(b) == IF Policy[job[b].recipe].declares_artifact
                    THEN tree[job[b].recipe].layer ELSE None

\* read_artifact_ref finds no declared layer file, or one that is no valid layer tar:
\* the record will say failed and carry no artifact.
CopyFails(b) ==
    /\ Step(b, "copy")
    /\ DeclaredLayer(b) \notin ValidLayers
    /\ job' = Goto(b, "record")
    /\ UNCHANGED <<tree, cache, scans, builds, vex, expired, clock, accepted, evidence, pull>>

\* A retained layer is copied to a private file of the cache directory and digested there.
CopyLayer(b) ==
    /\ Step(b, "copy")
    /\ DeclaredLayer(b) \in ValidLayers
    /\ Retained(b)
    /\ job' = [job EXCEPT ![b].pc = "publish", ![b].bytes = DeclaredLayer(b)]
    /\ UNCHANGED <<tree, cache, scans, builds, vex, expired, clock, accepted, evidence, pull>>

\* A layer that is not retained is validated where it is ...
ValidateInPlace(b) ==
    /\ Step(b, "copy")
    /\ DeclaredLayer(b) \in ValidLayers
    /\ ~Retained(b)
    /\ job' = Goto(b, "digest")
    /\ UNCHANGED <<tree, cache, scans, builds, vex, expired, clock, accepted, evidence, pull>>

\* Mutant: the second read does not expect the file to be gone.
DigestInPlaceUnchecked(b) ==
    /\ Step(b, "digest")
    /\ job' = [job EXCEPT ![b].pc = "recheck",
                          ![b].artifact = [digest |-> DeclaredLayer(b),
                                           retained |-> FALSE, expires |-> FALSE]]
    /\ UNCHANGED <<tree, cache, scans, builds, vex, expired, clock, accepted, evidence, pull>>

\* ... and read a second time for its digest; gone by then, the request ends with an error.
DigestInPlace(b) ==
    /\ Step(b, "digest")
    /\ job' = IF DeclaredLayer(b) = None
              THEN Abandon(b)
              ELSE [job EXCEPT ![b].pc = "recheck",
                               ![b].artifact = [digest |-> DeclaredLayer(b),
                                                retained |-> FALSE, expires |-> FALSE]]
    /\ UNCHANGED <<tree, cache, scans, builds, vex, expired, clock, accepted, evidence, pull>>

PublishedRef(b) == [digest |-> job[b].bytes, retained |-> TRUE,
                    expires |-> Policy[job[b].recipe].expiring]

\* The name cache/<digest> is taken with a hard link, so only one import creates it.
LinkNew(b) ==
    /\ Step(b, "publish")
    /\ cache[job[b].bytes] = None
    /\ cache' = [cache EXCEPT ![job[b].bytes] = job[b].bytes]
    /\ job' = [job EXCEPT ![b].pc = "recheck", ![b].artifact = PublishedRef(b)]
    /\ UNCHANGED <<tree, scans, builds, vex, expired, clock, accepted, evidence, pull>>

LinkExists(b) ==
    /\ Step(b, "publish")
    /\ cache[job[b].bytes] # None
    /\ job' = Goto(b, "existing")
    /\ UNCHANGED <<tree, cache, scans, builds, vex, expired, clock, accepted, evidence, pull>>

\* AlreadyExists: the file found there is validated; if it is gone again by now the
\* request ends with an error and no record.
AdoptExisting(b) ==
    /\ Step(b, "existing")
    /\ job' = IF validate_existing_cached_layer(job[b].bytes)
              THEN [job EXCEPT ![b].pc = "recheck", ![b].artifact = PublishedRef(b)]
              ELSE Abandon(b)
    /\ UNCHANGED <<tree, cache, scans, builds, vex, expired, clock, accepted, evidence, pull>>

\* Mutant: the tree is compared, the imported digest is not.
SourceUnchangedTreeOnly(b) == tree[job[b].recipe] = job[b].source.filesystem_digest

SourceUnchanged(b) ==
    /\ job[b].artifact.digest = job[b].source.declared_artifact_digest
    /\ tree[job[b].recipe] = job[b].source.filesystem_digest

\* The import must be of the bytes the source scan saw, in the tree it saw; if not, the
\* request is answered with 403 and leaves no record.
Recheck(b) ==
    /\ Step(b, "recheck")
    /\ job' = IF SourceUnchanged(b)
              THEN Goto(b, IF job[b].artifact.retained THEN "inspect" ELSE "record")
              ELSE Abandon(b)
    /\ UNCHANGED <<tree, cache, scans, builds, vex, expired, clock, accepted, evidence, pull>>

LayerScan(b, assessments) ==
    [id |-> clock, recipe_digest |-> job[b].recipe, mode |-> "filesystem",
     filesystem_digest |-> [layer |-> cache[job[b].artifact.digest]],
     declared_artifact_digest |-> None, layers |-> {job[b].artifact.digest},
     findings |-> LayerFindings[cache[job[b].artifact.digest]], assessments |-> assessments]

\* scan_layer_artifact unpacks the published file; OSV and the autonomous assessment
\* conclude what they conclude.
Inspect(b) ==
    /\ Step(b, "inspect")
    /\ cache[job[b].artifact.digest] \in Layers
    /\ \E a \in Assessments :
          job' = [job EXCEPT ![b].pc = "decide", ![b].scan = LayerScan(b, a)]
    /\ Stamp
    /\ UNCHANGED <<tree, cache, scans, builds, vex, expired, accepted, evidence, pull>>

InspectFails(b) ==
    /\ Step(b, "inspect")
    /\ cache[job[b].artifact.digest] \notin Layers
    /\ job' = Abandon(b)
    /\ UNCHANGED <<tree, cache, scans, builds, vex, expired, clock, accepted, evidence, pull>>

\* list_vex and evaluate_gate over the record about to be saved.
Decide(b) ==
    /\ Step(b, "decide")
    /\ LET j == job[b]
           record == Record(j, j.started, "succeeded", j.scan.id)
       IN  job' = [job EXCEPT ![b].pc = "save_scan",
                     ![b].decision = evaluate_gate(Policy[j.recipe], record, j.scan,
                                                   vex[j.recipe], 0)]
    /\ UNCHANGED <<tree, cache, scans, builds, vex, expired, clock, accepted, evidence, pull>>

\* Mutant: the build record is written before the scan it refers to.
SaveRecordFirst(b) ==
    /\ Step(b, "save_scan")
    /\ evidence = None
    /\ evidence' = b
    /\ builds' = builds \cup {Record(job[b], job[b].started, "succeeded", job[b].scan.id)}
    /\ job' = Goto(b, "commit")
    /\ UNCHANGED <<tree, cache, scans, vex, expired, clock, accepted, pull>>

\* save_build_with_scan, under the evidence lock: the scan first.
SaveScan(b) ==
    /\ Step(b, "save_scan")
    /\ evidence = None
    /\ evidence' = b
    /\ scans' = scans \cup {job[b].scan}
    /\ job' = Goto(b, "commit")
    /\ UNCHANGED <<tree, cache, builds, vex, expired, clock, accepted, pull>>

\* ... then the build record that refers to it; the lock is released.
CommitBuild(b) ==
    /\ Step(b, "commit")
    /\ builds' = builds \cup {Record(job[b], job[b].started, "succeeded", job[b].scan.id)}
    /\ evidence' = None
    /\ job' = Abandon(b)
    /\ UNCHANGED <<tree, cache, scans, vex, expired, clock, accepted, pull>>

\* ... or, when the record cannot be written, the scan is removed again, which may fail too.
CommitFails(b) ==
    /\ Step(b, "commit")
    /\ scans' \in {scans, scans \ {job[b].scan}}
    /\ evidence' = None
    /\ job' = Abandon(b)
    /\ UNCHANGED <<tree, cache, builds, vex, expired, clock, accepted, pull>>

\* save_build of a record without a layer scan.
SaveRecord(b) ==
    /\ Step(b, "record")
    /\ builds' = builds \cup
          {Record(job[b], job[b].started,
                  IF job[b].artifact = None THEN "failed" ELSE "succeeded", None)}
    /\ job' = Abandon(b)
    /\ UNCHANGED <<tree, cache, scans, vex, expired, clock, accepted, evidence, pull>>

\* Mutant: the lock is not tied to the lifetime of the handler that holds it.
AbortKeepsLock(b) ==
    /\ ~Step(b, "idle")
    /\ job' = Abandon(b)
    /\ UNCHANGED <<tree, cache, scans, builds, vex, expired, clock, accepted, evidence, pull>>

\* The client hangs up, or a read or a write of the handler fails: its future is dropped
\* where it is, a lock it holds is released, files it has written stay.
Abort(b) ==
    /\ ~Step(b, "idle")
    /\ job' = Abandon(b)
    /\ evidence' = IF evidence = b THEN None ELSE evidence
    /\ UNCHANGED <<tree, cache, scans, builds, vex, expired, clock, accepted, pull>>

-----------------------------------------------------------------------------
(***************************************************************************)
(* What happens around the handlers.                                       *)
(***************************************************************************)
EditTree(r) ==
    /\ \E t \in Trees[r] : tree' = [tree EXCEPT ![r] = t]
    /\ UNCHANGED <<cache, scans, builds, vex, expired, clock, accepted, evidence, job, pull>>

\* add_vex and save_vex_statement.
AddVex(r, s) ==
    /\ Len(vex[r]) < MaxVex
    /\ AcceptsVex(Policy[r], latest_build_evidence(r), s, 0)
    /\ vex' = [vex EXCEPT ![r] = Append(@, s)]
    /\ UNCHANGED <<tree, cache, scans, builds, expired, clock, accepted, evidence, job, pull>>

ArtifactExpires(id) ==
    /\ \E b \in builds : b.id = id /\ b.artifact # None /\ b.artifact.expires
    /\ id \notin expired
    /\ expired' = expired \cup {id}
    /\ UNCHANGED <<tree, cache, scans, builds, vex, clock, accepted, evidence, job, pull>>

\* The sweep unlinks a cached file; which one and when is the subject of CacheRetention.
SweepRemove(d) ==
    /\ cache[d] # None
    /\ cache' = [cache EXCEPT ![d] = None]
    /\ UNCHANGED <<tree, scans, builds, vex, expired, clock, accepted, evidence, job, pull>>

\* The process dies and is started again.  Cached files are not synced when they are
\* linked, so a power loss may leave any of them torn under its final name.
Crash ==
    /\ job' = [b \in Builders |-> IdleJob]
    /\ pull' = [p \in Pullers |-> IdlePull]
    /\ evidence' = None
    /\ \E lost \in SUBSET {d \in Layers : cache[d] # None} :
          cache' = [d \in Layers |-> IF d \in lost THEN Torn ELSE cache[d]]
    /\ UNCHANGED <<tree, scans, builds, vex, expired, clock, accepted>>

-----------------------------------------------------------------------------
(***************************************************************************)
(* GET /v2/:name/manifests/:reference and /blobs/:digest.  A manifest is   *)
(* judged before its layer is selected (materialized_image_manifest); a    *)
(* blob request goes through the recipes of the name, selects the layer of *)
(* each first and judges the recipe whose layer has the wanted digest.     *)
(***************************************************************************)
At(p, pc) == pull[p].pc = pc
Answer(p) == [pull EXCEPT ![p] = IdlePull]   \* an error response, or the end of a stream

ManifestStart(p, r) ==
    /\ At(p, "idle")
    /\ pull' = [pull EXCEPT ![p] = [IdlePull EXCEPT !.pc = "gate", !.kind = "manifest",
                                                    !.recipe = r]]
    /\ UNCHANGED <<tree, cache, scans, builds, vex, expired, clock, accepted, evidence, job>>

BlobStart(p, d) ==
    /\ At(p, "idle")
    /\ pull' = [pull EXCEPT ![p] = [IdlePull EXCEPT !.pc = "layer", !.kind = "blob",
                                                    !.want = d, !.todo = Recipes]]
    /\ UNCHANGED <<tree, cache, scans, builds, vex, expired, clock, accepted, evidence, job>>

\* The layer selection failed: an error for a manifest, the next recipe for a blob.
NoLayer(p) == IF pull[p].kind = "manifest"
              THEN Answer(p)
              ELSE [pull EXCEPT ![p].pc = "layer", ![p].recipe = None, ![p].layer = None]

\* list_builds of latest_materialized_layer, and its checks of the record it finds.
Select(p, r) ==
    pull' = IF HasLayerToServe(latest_build_evidence(r))
            THEN [pull EXCEPT ![p].pc = "verify", ![p].recipe = r, ![p].todo = @ \ {r},
                              ![p].layer = latest_build_evidence(r)]
            ELSE IF pull[p].kind = "manifest" THEN Answer(p)
            ELSE [pull EXCEPT ![p].todo = @ \ {r}]

SelectLayer(p) ==
    /\ At(p, "layer")
    /\ \/ pull[p].kind = "manifest" /\ Select(p, pull[p].recipe)
       \/ pull[p].kind = "blob" /\ \E r \in pull[p].todo : Select(p, r)
       \/ pull[p].kind = "blob" /\ pull[p].todo = {} /\ pull' = Answer(p)
    /\ UNCHANGED <<tree, cache, scans, builds, vex, expired, clock, accepted, evidence, job>>

\* The file is there, hashes to its name and is a layer tar.  A manifest is complete then;
\* a blob goes on to the gate if this is the digest it asked for.
VerifyLayer(p) ==
    /\ At(p, "verify")
    /\ LET digest == pull[p].layer.artifact.digest
       IN  pull' = IF ~validate_existing_cached_layer(digest) THEN NoLayer(p)
                   ELSE IF pull[p].kind = "manifest" THEN [pull EXCEPT ![p].pc = "served"]
                   ELSE IF digest = pull[p].want THEN [pull EXCEPT ![p].pc = "gate"]
                   ELSE NoLayer(p)
    /\ UNCHANGED <<tree, cache, scans, builds, vex, expired, clock, accepted, evidence, job>>

\* Mutant: the gate takes the first attempt of the sorted records instead of the last.
ReadOldestEvidence(p) ==
    /\ At(p, "gate")
    /\ LET attempts == {b \in RecordsOf(pull[p].recipe) : b.status # "planned"}
       IN  /\ attempts # {}
           /\ pull' = [pull EXCEPT ![p].pc = "judge",
                 ![p].gated = CHOOSE b \in attempts :
                                 \A c \in attempts : b.created_at <= c.created_at]
    /\ UNCHANGED <<tree, cache, scans, builds, vex, expired, clock, accepted, evidence, job>>

\* enforce_manifest_gate: list_builds ...
ReadEvidence(p) ==
    /\ At(p, "gate")
    /\ pull' = [pull EXCEPT ![p].pc = "judge",
                            ![p].gated = latest_build_evidence(pull[p].recipe)]
    /\ UNCHANGED <<tree, cache, scans, builds, vex, expired, clock, accepted, evidence, job>>

\* ... then list_vex, the scans the record is bound to, and the verdict.
Judge(p) ==
    /\ At(p, "judge")
    /\ pull' = IF metadata_gate(pull[p].recipe, pull[p].gated) = "denied" THEN Answer(p)
               ELSE [pull EXCEPT ![p].pc =
                        IF pull[p].kind = "manifest" THEN "layer" ELSE "open"]
    /\ UNCHANGED <<tree, cache, scans, builds, vex, expired, clock, accepted, evidence, job>>

\* validate_cached_layer_metadata (presence and size only), then open; the open file is
\* streamed even if its name is unlinked meanwhile.
OpenBlob(p) ==
    /\ At(p, "open")
    /\ LET digest == pull[p].layer.artifact.digest
       IN  pull' = IF cache[digest] = None THEN Answer(p)
                   ELSE [pull EXCEPT ![p].pc = "served", ![p].bytes = cache[digest]]
    /\ UNCHANGED <<tree, cache, scans, builds, vex, expired, clock, accepted, evidence, job>>

\* The response is complete, or the client is gone.
EndPull(p) ==
    /\ ~At(p, "idle")
    /\ pull' = Answer(p)
    /\ UNCHANGED <<tree, cache, scans, builds, vex, expired, clock, accepted, evidence, job>>

-----------------------------------------------------------------------------
\* What the runtime executes of a create_build that nobody aborts.
Import(b) ==
    \/ ScanSource(b) \/ DenyIntake(b) \/ StartImport(b)
    \/ CopyFails(b) \/ CopyLayer(b) \/ ValidateInPlace(b) \/ DigestInPlace(b)
    \/ LinkNew(b) \/ LinkExists(b) \/ AdoptExisting(b)
    \/ Recheck(b) \/ Inspect(b) \/ InspectFails(b) \/ Decide(b)
    \/ SaveScan(b) \/ CommitBuild(b) \/ CommitFails(b) \/ SaveRecord(b)

Serve(p) ==
    SelectLayer(p) \/ VerifyLayer(p) \/ ReadEvidence(p) \/ Judge(p) \/ OpenBlob(p) \/ EndPull(p)

Request ==
    \/ \E b \in Builders, r \in Recipes :
          PlanBuild(b, r) \/ \E c \in BOOLEAN : StartBuild(b, r, c)
    \/ \E p \in Pullers : \/ \E r \in Recipes : ManifestStart(p, r)
                          \/ \E d \in Layers : BlobStart(p, d)

Environment ==
    \/ \E b \in Builders : Abort(b)
    \/ \E r \in Recipes : EditTree(r) \/ \E s \in Statements : AddVex(r, s)
    \/ \E id \in {b.id : b \in builds} : ArtifactExpires(id)
    \/ \E d \in Layers : SweepRemove(d)
    \/ Crash

Next ==
    \/ Request
    \/ \E b \in Builders : Import(b)
    \/ \E p \in Pullers : Serve(p)
    \/ Environment

Spec == Init /\ [][Next]_vars

\* A handler that was accepted is polled until it answers; the evidence lock is a fair
\* (first come, first served) tokio mutex.
Fairness == \A b \in Builders : WF_vars(Import(b)) /\ SF_vars(SaveScan(b))

FairSpec == Spec /\ Fairness

-----------------------------------------------------------------------------
(***************************************************************************)
(* Properties.                                                             *)
(***************************************************************************)

\* The scan a record names as the inspection of its artifact.
Inspection(build) == StoredScan(build.recipe_digest, build.artifact_scan_id)

\* An import that the store calls succeeded carries its whole chain of evidence, whatever
\* was edited, swept or aborted while it ran: the source scan it names is on disk exactly as
\* digested, that scan saw the very layer that was imported, and a layer that was retained
\* was unpacked and inspected (on disk too) and judged before the record existed.
EvidenceBound ==
    \A b \in builds : b.status = "succeeded" =>
        /\ b.artifact # None
        /\ b.source_scan_digest \in scans
        /\ b.source_scan_digest.id = b.source_scan_id
        /\ b.source_scan_digest.declared_artifact_digest = b.artifact.digest
        /\ b.artifact.retained =>
              /\ b.policy_decision # None
              /\ Inspection(b) # None
              /\ Inspection(b).layers = {b.artifact.digest}
              /\ Inspection(b).filesystem_digest = [layer |-> b.artifact.digest]

\* Without external overrides a denial is final: the record it was written for is denied by
\* every later evaluation of the gate, no matter which VEX statements arrived since.
QuarantineIsPermanent ==
    \A b \in builds :
        /\ b.policy_decision = "denied"
        /\ ~Policy[b.recipe_digest].allow_external_vex_overrides
        => metadata_gate(b.recipe_digest, b) = "denied"

Streaming(p) == pull[p].pc = "served" /\ pull[p].kind = "blob"

\* The bytes a client receives are the bytes of the digest it asked for, and a persisted
\* inspection of exactly these bytes exists: not those of a file that was swept and imported
\* again, or torn by a power loss, between the checks and the open.
ServedBytesWereScanned ==
    \A p \in Pullers : Streaming(p) =>
        /\ pull[p].bytes = pull[p].want
        /\ \E s \in scans :
              /\ s.recipe_digest = pull[p].recipe
              /\ s.id = pull[p].layer.artifact_scan_id
              /\ s.filesystem_digest = [layer |-> pull[p].bytes]

\* Which record is judged and which record is served may differ only in one direction: a
\* blob is selected first, so the judged record is the same or newer; a manifest is judged
\* first, so the layer it lists is of the same or a newer record.
OvertakenOnlyForward ==
    \A p \in Pullers : pull[p].pc = "served" =>
        IF pull[p].kind = "blob"
        THEN pull[p].layer.created_at <= pull[p].gated.created_at
        ELSE pull[p].gated # None => pull[p].gated.created_at <= pull[p].layer.created_at

\* A blob whose selected record is the record the gate judged was approved when it was
\* imported, if the recipe admits no external overrides.
JudgedBlobWasApproved ==
    \A p \in Pullers :
        /\ Streaming(p)
        /\ pull[p].layer = pull[p].gated
        /\ ~Policy[pull[p].recipe].allow_external_vex_overrides
        => pull[p].layer.policy_decision = "allowed"

\* README.md:498: a denied artifact is never exposed through OCI pull paths.  The bytes
\* streamed from a recipe without external overrides were approved by some record of it.
QuarantineHolds ==
    \A p \in Pullers :
        Streaming(p) /\ ~Policy[pull[p].recipe].allow_external_vex_overrides
        => \E b \in RecordsOf(pull[p].recipe) :
              /\ b.artifact # None
              /\ b.artifact.digest = pull[p].bytes
              /\ b.policy_decision = "allowed"

\* Every accepted build request ends, whichever way: nobody waits for an evidence lock that
\* an aborted handler took along.
BuildsAnswered == \A b \in Builders : job[b].pc # "idle" ~> job[b].pc = "idle"

Ledger == INSTANCE EvidenceLedger
             WITH exhibits <- scans, ledger <- builds,
                  streams <- [p \in Pullers |-> pull[p].bytes]

\* The store and the handlers implement the evidence ledger.
LedgerSpec == Ledger!Spec
=============================================================================
