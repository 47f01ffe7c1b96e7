----------------------------- MODULE Publication -----------------------------
(***************************************************************************)
(* What OCI clients find under one name (src/app.rs): image manifests by   *)
(* tag, the referrers of an image manifest, and manifests, documents,      *)
(* configs and layers by digest.  Nothing that is published is stored:     *)
(* every request computes it anew from the evidence on file, for one       *)
(* recipe of the name after the other, while imports, scans, statements    *)
(* and expiries change that evidence.                                      *)
(*                                                                         *)
(* Records are renamed into place but not synced (write_json): after a     *)
(* power loss one of them may be gone, or there and unreadable.            *)
(*                                                                         *)
(* Requests do not interact, so there is one at a time.  Its steps are the *)
(* reads that a change can come between: the listing of the builds, and    *)
(* what is read for the record chosen from it (scans never change while a  *)
(* record is bound to them).  An import puts its files there in one step;  *)
(* Materialization has the steps it takes, and the files of the cache,     *)
(* which are all in place here.                                            *)
(***************************************************************************)
EXTENDS MetadataDocuments, FiniteSets

CONSTANTS
    Recipes,       \* the stored recipes of the name, by created_at: a sequence of records
    Layers,        \* layers that imports bring
    Assessments,   \* what an inspection may conclude: sets of assessments
    Statements,    \* VEX statements that clients post
    MaxBuilds,     \* bound: imports
    MaxVex,        \* bound: statements of a recipe
    MaxEvents      \* bound: scans posted on their own, expiries and power losses, together

ASSUME PublicationAssumption ==
    /\ Len(Recipes) \in Nat \ {0} /\ DOMAIN Recipes = 1..Len(Recipes)
    /\ \A r \in DOMAIN Recipes : Recipes[r].digest = r
    /\ \A s \in Statements :
          s.status \in {"not_affected", "affected", "fixed", "under_investigation"}
    /\ None \notin Nat
    /\ {MaxBuilds, MaxVex, MaxEvents} \subseteq Nat

VARIABLES
    builds,     \* builds/<recipe>/*.json
    scans,      \* scans/<recipe>/*.json
    vex,        \* vex/<recipe>.json, oldest first
    unreadable, \* files that do not parse
    unsynced,   \* files written since the registry started
    now,        \* the time, as far as expiry goes
    clock,      \* next id and created_at stamp
    events,     \* posted scans, expiries and power losses so far
    reader,     \* the request being answered
    told        \* digests an answer has named, while the evidence behind them is unchanged

vars == <<builds, scans, vex, unreadable, unsynced, now, clock, events, reader, told>>
evidence == <<builds, scans, vex, unreadable, unsynced, now, clock, events>>

Ids == DOMAIN Recipes

-----------------------------------------------------------------------------
(***************************************************************************)
(* Reading the store.                                                      *)
(***************************************************************************)
Path(kind, r, id) == <<kind, r, id>>
VexPath(r) == Path("vex", r, 0)

BuildOf(r, b) == Path("build", r, b.id)
ScanOf(r, s) == Path("scan", r, s.id)

Readable(path) == path \notin unreadable

\* list_builds puts one failed record in the place of all unreadable ones, after the others.
CorruptBuild ==
    [id |-> 0, recipe_digest |-> None, status |-> "failed", created_at |-> 0,
     timestamped |-> TRUE, source_scan_id |-> None, source_scan_digest |-> None,
     artifact_scan_id |-> None, artifact |-> None]

\* Mutant: unreadable records are skipped, as list_recipes does with recipes.
latest_readable_build(r) ==
    LET attempts == {b \in builds[r] : Readable(BuildOf(r, b))}
    IN  IF attempts = {} THEN None
        ELSE CHOOSE b \in attempts : \A c \in attempts : c.created_at <= b.created_at

latest_build_evidence(r) ==
    IF \E b \in builds[r] : ~Readable(BuildOf(r, b)) THEN CorruptBuild
    ELSE IF builds[r] = {} THEN None
    ELSE CHOOSE b \in builds[r] : \A c \in builds[r] : c.created_at <= b.created_at

CorruptScan ==
    [id |-> 0, recipe_digest |-> None, created_at |-> 0, mode |-> "source", layers |-> {},
     findings |-> {[category |-> "store-corrupt-scan-record", severity |-> "high",
                    mentions |-> {}, evidence |-> None]},
     assessments |-> {}]

\* Mutant: the scan that was saved first.
first_scan(r) ==
    IF scans[r] = {} THEN None
    ELSE CHOOSE s \in scans[r] : \A t \in scans[r] : s.created_at <= t.created_at

\* list_scans does the same as list_builds, and latest_scan takes its last element.
latest_scan(r) ==
    IF \E s \in scans[r] : ~Readable(ScanOf(r, s)) THEN CorruptScan
    ELSE IF scans[r] = {} THEN None
    ELSE CHOOSE s \in scans[r] : \A t \in scans[r] : t.created_at <= s.created_at

Stored(r, id) == {s \in scans[r] : s.id = id}

\* A scan that is bound to the record has to be there and readable, or the request fails.
BoundScanMissing(r, build) ==
    /\ build # None
    /\ build.artifact_scan_id # None
    /\ ~\E s \in Stored(r, build.artifact_scan_id) : Readable(ScanOf(r, s))

load_decision_scan(r, build) ==
    IF build = None \/ build.artifact_scan_id = None THEN latest_scan(r)
    ELSE CHOOSE s \in scans[r] : s.id = build.artifact_scan_id

source_scan_binding_error(r, build) ==
    /\ build # None
    /\ build.source_scan_id # None
    /\ build.source_scan_digest # None
    /\ ~\E s \in Stored(r, build.source_scan_id) :
          /\ Readable(ScanOf(r, s))
          /\ s.recipe_digest = Recipes[r].digest
          /\ s.mode = "source"
          /\ s = build.source_scan_digest

\* Something that a request needs for this record cannot be read at all.
EvidenceFails(r, build) == BoundScanMissing(r, build) \/ ~Readable(VexPath(r))

GateAllows(r, build) ==
    /\ ~EvidenceFails(r, build)
    /\ ~source_scan_binding_error(r, build)
    /\ evaluate_gate(Recipes[r], build, load_decision_scan(r, build), vex[r], now) = "allowed"

\* The layer of the latest record can be served.
HasLayer(build) ==
    /\ build # None
    /\ build.status = "succeeded"
    /\ build.artifact # None
    /\ build.artifact.expires_at = None \/ build.artifact.expires_at > now

\* Mutant: the documents are made from the latest scan, as GET .../sbom does.
metadata_documents_of_latest(r, build) ==
    documents_of(Recipes[r], build, latest_scan(r), vex[r], now,
                 source_scan_binding_error(r, build))

metadata_documents(r, build) ==
    documents_of(Recipes[r], build, load_decision_scan(r, build), vex[r], now,
                 source_scan_binding_error(r, build))

get_sbom(r) == sbom_of(Recipes[r], latest_scan(r))

-----------------------------------------------------------------------------
(***************************************************************************)
(* What is asked for and named.  `recipe` says which recipe it is of.      *)
(***************************************************************************)
Image(r, layer) == [type |-> "image", recipe |-> r, layer |-> layer]
\* No record is the absent value.
ASSUME RecordAssumption ==
    CorruptBuild # None /\ \A r \in Ids, layer \in Layers : Image(r, layer) # None

Config(r, layer) == [type |-> "config", recipe |-> r, layer |-> layer]
Layer(r, layer) == [type |-> "layer", recipe |-> r, layer |-> layer]
Artifact(image, d) == [type |-> "artifact", recipe |-> d.recipe, subject |-> image, document |-> d]

\* What an image manifest names, and what an index of referrers and its manifests name.
NamedByImage(image) == {image, Config(image.recipe, image.layer), Layer(image.recipe, image.layer)}
NamedByReferrers(image, documents) == documents \cup {Artifact(image, d) : d \in documents}

Idle ==
    [pc |-> "idle", request |-> None, want |-> None, at |-> 0, record |-> None, image |-> None,
     since |-> 0, documents |-> {}, steady |-> TRUE]

Init ==
    /\ builds = [r \in Ids |-> {}] /\ scans = [r \in Ids |-> {}] /\ vex = [r \in Ids |-> << >>]
    /\ unreadable = {} /\ unsynced = {}
    /\ now = 0 /\ clock = 1 /\ events = 0
    /\ reader = Idle /\ told = {}

-----------------------------------------------------------------------------
(***************************************************************************)
(* A request goes through these places: "select" (a blob only:             *)
(* latest_materialized_layer), "gate" and "judge" (metadata_gate), "layer" *)
(* (latest_materialized_layer), "documents" and "publish"                  *)
(* (metadata_documents), and ends "served" or "refused".                   *)
(***************************************************************************)
At(pc) == reader.pc = pc
Candidate == reader.at

First(request) == IF request = "blob" THEN "select" ELSE "gate"

Start(request, want, at) ==
    /\ At("idle")
    /\ reader' = [Idle EXCEPT !.pc = First(request), !.request = request, !.want = want, !.at = at]
    /\ UNCHANGED <<evidence, told>>

\* oci_manifest_response for a tag: lookup_recipe gives the recipe.
AskForTag(r) == Start("tag", Image(r, None), r)

\* oci_referrers_response looks for the recipe whose image manifest is meant.
AskForReferrers(image) == Start("referrers", image, 1)

\* oci_manifest_response for a digest: metadata_artifact_manifest_by_digest goes through the
\* recipes.  The index then knows tags and recipe digests, but no digests of image manifests.
AskForManifest(d) == Start("manifest", d, 1)

\* oci_blob_response goes through the recipes.
AskForBlob(d) == Start("blob", d, 1)

Serve == reader' = [reader EXCEPT !.pc = "served"]
Refuse == reader' = [reader EXCEPT !.pc = "refused"]

\* A recipe does not have what is wanted, or its evidence denies it or cannot be read: the
\* next one.  A tag names one recipe only.
NextCandidate ==
    IF reader.request = "tag" \/ reader.at = Len(Recipes) THEN Refuse
    ELSE reader' = [reader EXCEPT !.at = @ + 1, !.pc = First(reader.request),
                                  !.record = None, !.image = None, !.since = 0]

IsBlobOf(d, image) ==
    \/ d = Config(image.recipe, image.layer)
    \/ d.type = "layer" /\ d.layer = image.layer

\* The config and the layer of the recipe are tried first, then its documents.
SelectBlob ==
    /\ At("select")
    /\ LET build == latest_build_evidence(Candidate)
           found == HasLayer(build) /\ IsBlobOf(reader.want, Image(Candidate, build.artifact.digest))
       IN  reader' = [reader EXCEPT !.pc = "gate",
                        !.image = IF found THEN Image(Candidate, build.artifact.digest) ELSE None]
    /\ UNCHANGED <<evidence, told>>

\* metadata_gate: list_builds ...
ReadBuilds ==
    /\ At("gate")
    /\ reader' = [reader EXCEPT !.pc = "judge", !.record = latest_build_evidence(Candidate)]
    /\ UNCHANGED <<evidence, told>>

\* ... then the statements and the scans the record is bound to, and the verdict.  A config
\* or layer that was found already is refused if it denies, whatever other recipes have.
Judge ==
    /\ At("judge")
    /\ IF GateAllows(Candidate, reader.record)
       THEN IF reader.image = None THEN reader' = [reader EXCEPT !.pc = "layer"] ELSE Serve
       ELSE IF reader.image = None THEN NextCandidate ELSE Refuse
    /\ UNCHANGED <<evidence, told>>

\* latest_materialized_layer; an image manifest is complete then.
ChooseLayer ==
    /\ At("layer")
    /\ LET build == latest_build_evidence(Candidate)
           image == Image(Candidate, build.artifact.digest)
       IN  IF \/ ~HasLayer(build)
              \/ reader.request = "referrers" /\ image # reader.want
           THEN NextCandidate
           ELSE reader' = [reader EXCEPT
                             !.pc = IF reader.request = "tag" THEN "served" ELSE "documents",
                             !.image = image, !.since = build.created_at]
    /\ UNCHANGED <<evidence, told>>

\* Mutant: the records that the gate has read are used again.
ReuseBuilds ==
    /\ At("documents")
    /\ reader' = [reader EXCEPT !.pc = "publish"]
    /\ UNCHANGED <<evidence, told>>

\* metadata_documents: list_builds ...
ListBuilds ==
    /\ At("documents")
    /\ reader' = [reader EXCEPT !.pc = "publish", !.record = latest_build_evidence(Candidate)]
    /\ UNCHANGED <<evidence, told>>

Wanted(documents) ==
    CASE reader.request = "blob" -> reader.want \in documents
      [] reader.request = "manifest" -> \E d \in documents : reader.want = Artifact(reader.image, d)
      [] OTHER -> TRUE

\* Mutant: an error ends the request, also when it is about another recipe.
PublishOrFail ==
    /\ At("publish")
    /\ LET documents == metadata_documents(Candidate, reader.record)
       IN  IF EvidenceFails(Candidate, reader.record) THEN Refuse
           ELSE IF Wanted(documents)
                THEN reader' = [reader EXCEPT !.pc = "served", !.documents = documents]
                ELSE Refuse
    /\ UNCHANGED <<evidence, told>>

\* ... then everything else that the documents are made of.  An error ends a request for
\* referrers, which has found its recipe; the others go on.
Publish ==
    /\ At("publish")
    /\ LET documents == metadata_documents(Candidate, reader.record)
       IN  IF EvidenceFails(Candidate, reader.record)
           THEN IF reader.request = "referrers" THEN Refuse ELSE NextCandidate
           ELSE IF Wanted(documents)
                THEN reader' = [reader EXCEPT !.pc = "served", !.documents = documents]
                ELSE NextCandidate
    /\ UNCHANGED <<evidence, told>>

Named ==
    CASE reader.request = "tag" -> NamedByImage(reader.image)
      [] reader.request = "referrers" -> NamedByReferrers(reader.image, reader.documents)
      [] OTHER -> {}

\* The client has the answer, or has hung up before.
Finish ==
    /\ ~At("idle")
    /\ told' = IF At("served") /\ reader.steady THEN told \cup Named ELSE told
    /\ reader' = Idle
    /\ UNCHANGED evidence

-----------------------------------------------------------------------------
(***************************************************************************)
(* What changes the evidence.                                              *)
(***************************************************************************)
\* What was said about these recipes may not hold any more.
Changed(rs) ==
    /\ told' = {d \in told : d.recipe \notin rs}
    /\ reader' = IF At("idle") THEN reader
                 ELSE [reader EXCEPT !.steady = @ /\ reader.want.recipe \notin rs]

SourceScan(r, id) ==
    [id |-> id, recipe_digest |-> r, created_at |-> id, mode |-> "source", layers |-> {},
     findings |-> {}, assessments |-> {}]

LayerScan(r, id, layer, assessments) ==
    [SourceScan(r, id) EXCEPT !.mode = "filesystem", !.layers = {layer},
                              !.assessments = assessments]

Imported == UNION {builds[r] : r \in Ids}

\* create_build saves the source scan, the scan of the layer if it has come so far, and the
\* build record with the stamp of its start.
SaveEvidence(r, build, saved) ==
    /\ Cardinality(Imported) < MaxBuilds
    /\ builds' = [builds EXCEPT ![r] = @ \cup {build}]
    /\ scans' = [scans EXCEPT ![r] = @ \cup saved]
    /\ unsynced' = unsynced \cup {BuildOf(r, build)} \cup {ScanOf(r, s) : s \in saved}
    /\ clock' = clock + 2
    /\ Changed({r})
    /\ UNCHANGED <<vex, unreadable, now, events>>

Record(r, status, artifact_scan_id, artifact) ==
    [id |-> clock, recipe_digest |-> r, status |-> status, created_at |-> clock,
     timestamped |-> TRUE, source_scan_id |-> clock, source_scan_digest |-> SourceScan(r, clock),
     artifact_scan_id |-> artifact_scan_id, artifact |-> artifact]

\* The intake gate denies, or there is no layer to import.
FailBuild(r) == SaveEvidence(r, Record(r, "failed", None, None), {SourceScan(r, clock)})

Import(r, layer, assessments) ==
    SaveEvidence(r,
        Record(r, "succeeded", clock + 1,
               [digest |-> layer,
                expires_at |-> IF Recipes[r].expiring THEN now + 1 ELSE None]),
        {SourceScan(r, clock), LayerScan(r, clock + 1, layer, assessments)})

AnEvent == events < MaxEvents /\ events' = events + 1

\* create_scan.
PostScan(r) ==
    /\ AnEvent
    /\ scans' = [scans EXCEPT ![r] = @ \cup {SourceScan(r, clock)}]
    /\ unsynced' = unsynced \cup {ScanOf(r, SourceScan(r, clock))}
    /\ clock' = clock + 1
    /\ UNCHANGED <<builds, vex, unreadable, now, reader, told>>

AddVex(r, s) ==
    /\ Len(vex[r]) < MaxVex
    /\ Readable(VexPath(r))
    /\ AcceptsVex(Recipes[r], latest_build_evidence(r), s, now)
    /\ vex' = [vex EXCEPT ![r] = Append(@, s)]
    /\ unsynced' = unsynced \cup {VexPath(r)}
    /\ Changed({r})
    /\ UNCHANGED <<builds, scans, unreadable, now, clock, events>>

\* Artifacts and exceptions expire.
Tick ==
    /\ AnEvent
    /\ now' = now + 1
    /\ Changed(Ids)
    /\ UNCHANGED <<builds, scans, vex, unreadable, unsynced, clock>>

\* The power fails and the registry is started again.  One of the files written meanwhile
\* is not there, or is there without its contents; a file of statements may be an older one.
PowerLoss(path) ==
    /\ AnEvent
    /\ path \in unsynced
    /\ unsynced' = {}
    /\ \/ unreadable' = unreadable \cup {path} /\ UNCHANGED <<builds, scans, vex>>
       \/ /\ builds' = [r \in Ids |-> {b \in builds[r] : BuildOf(r, b) # path}]
          /\ scans' = [r \in Ids |-> {s \in scans[r] : ScanOf(r, s) # path}]
          /\ vex' = [r \in Ids |-> IF path = VexPath(r) THEN SubSeq(vex[r], 1, Len(vex[r]) - 1)
                                   ELSE vex[r]]
          /\ UNCHANGED unreadable
    /\ reader' = Idle /\ told' = {}
    /\ UNCHANGED <<now, clock>>

-----------------------------------------------------------------------------
\* Clients ask for tags, and for what an answer named.
Ask ==
    \/ \E r \in Ids : AskForTag(r)
    \/ \E d \in told : \/ d.type = "image" /\ AskForReferrers(d)
                       \/ d.type \in {"image", "artifact"} /\ AskForManifest(d)
                       \/ d.type \notin {"image", "artifact"} /\ AskForBlob(d)

Answer ==
    SelectBlob \/ ReadBuilds \/ Judge \/ ChooseLayer \/ ListBuilds \/ Publish \/ Finish

Write ==
    \/ \E r \in Ids : \/ FailBuild(r) \/ PostScan(r)
                      \/ \E l \in Layers, a \in Assessments : Import(r, l, a)
                      \/ \E s \in Statements : AddVex(r, s)
    \/ Tick
    \/ \E path \in unsynced : PowerLoss(path)

Next == Ask \/ Answer \/ Write

Spec == Init /\ [][Next]_vars

-----------------------------------------------------------------------------
Referrers == At("served") /\ reader.request = "referrers"

\* The documents of an index of referrers were made from the record its subject was chosen
\* from or from a later one, never from an earlier one, whatever was committed in between.
DocumentsNotOlder == Referrers => reader.since <= reader.record.created_at

\* If the evidence did not change while the index was made, its documents are about the
\* subject and agree with the verdict that let it pass: the SLSA document names the layer and
\* its inspection and finds nothing, no published VEX statement is open, and the byproducts
\* are the documents published beside it.
SetAgreesWithGate ==
    Referrers /\ reader.steady =>
        /\ \E d \in reader.documents :
              /\ d.type = "slsa"
              /\ d.artifact = reader.image.layer
              /\ d.scan = reader.record.artifact_scan_id
              /\ d.findings = {}
              /\ \A i \in DOMAIN d.byproducts : d.byproducts[i] \in reader.documents
        /\ \A d \in reader.documents : d.type = "openvex" =>
              \A s \in d.statements : s.status \notin {"affected", "under_investigation"}

\* While a build record or the statements of a recipe are there and cannot be read, nothing is
\* served of it, and no record is judged or documented one of whose scans is missing or cannot
\* be read.  A record or a statement that a power loss takes back altogether leaves no trace
\* (list_builds and list_vex return what there is): what is left of the recipe decides then,
\* even if what is lost would have denied it.
UnreadableIsNotServed ==
    At("served") =>
        /\ \A b \in builds[reader.at] : Readable(BuildOf(reader.at, b))
        /\ Readable(VexPath(reader.at))
        /\ reader.record # None =>
              \A id \in {reader.record.source_scan_id, reader.record.artifact_scan_id} \ {None} :
                 \E s \in Stored(reader.at, id) : Readable(ScanOf(reader.at, s))

\* An earlier recipe of the name has the same layer, and is denied.
DeniedByNamesake(d) ==
    /\ d.type = "layer"
    /\ reader.at < d.recipe
    /\ reader.image = Image(reader.at, d.layer)

\* Whatever an answer named by digest, a config, a layer, a document or the manifest of one,
\* can be fetched as long as the evidence of its recipe does not change; the only exception
\* is a layer shared with an older recipe that is denied.  Other recipes of the name, their
\* unreadable evidence and newly posted scans make no difference.
NamedIsServed ==
    At("refused") /\ reader.want \in told /\ reader.want.type # "image" =>
        DeniedByNamesake(reader.want)

\* The SBOM at the endpoint that an index of referrers gives for it is the one the index lists,
\* unless a later scan of the recipe was saved, or one cannot be read.
EndpointAgrees ==
    \A d \in told : d.type = "sbom" =>
        \/ get_sbom(d.recipe) = d
        \/ \E s \in scans[d.recipe] : s.created_at > d.about \/ ~Readable(ScanOf(d.recipe, s))

\* README.md:180: a client pulls an image by tag or digest.  The digest under which the
\* manifest of a tag was just served (Docker-Content-Digest) resolves too.
AdvertisedManifestResolves ==
    At("refused") /\ reader.want.type = "image" => reader.want \notin told
=============================================================================
