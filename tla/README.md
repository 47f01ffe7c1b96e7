# Fulcr: specifications, model checking and proofs

Fulcr is an OCI registry that keeps evidence instead of images. A recipe (source, builder,
materials, policy) is stored; an import scans the source tree, takes in the layer tar the tree
declares, inspects the exact layer, and records the whole chain; a gate computes, from these
records, whether an OCI client may pull the layer. Layer bytes are a cache and may go away;
records are the durable truth.

These modules describe that program as it is in `src/`, with TLC configurations that check
small instances of it and TLAPS proofs of the main theorems for instances of every size.
Line numbers below are those of `src/src/*.rs` and `src/README.md` unless said otherwise.

## 1. The system

| Component | State it keeps | Operations | Module |
|---|---|---|---|
| Metadata gate (`gate.rs`, posture in `metadata.rs`) | none, a function | `evaluate_gate`, `evaluate_artifact_intake_gate`, `vex_resolves_candidate`, `slsa_policy_findings` | `MetadataGate` |
| Materialisation (`app.rs` `create_build`, `execute_build`; `store.rs` builds and scans) | `builds/`, `scans/`, the cache directory, `evidence_lock` | plan, source scan, intake gate, copy, link, adopt, recheck, inspect, decide, save | `Materialization` |
| Serving (`app.rs` manifests and blobs) | none of its own | `materialized_image_manifest`, `oci_blob_response`, `enforce_manifest_gate` | `Materialization` |
| Recipe store (`store.rs`) | `recipes/`, `recipe_index`, `blob_index`, `recipe_lock` | `save_recipe`, `lookup_recipe`, `lookup_blob_recipe`, `rebuild_index` | `RecipeIndex` |
| VEX statements (`app.rs` `add_vex`, `store.rs`, `metadata.rs`) | `vex/<recipe>.json`, its temporary file, `vex_lock` | post, read in the gate, publish, expire | `VexLedger` |
| Cache sweep (`store.rs` `sweep_cache`, `main.rs`) | modification times in the cache directory, the clock | hourly sweep | `CacheRetention` |
| Scanner, what a file means (`scanner.rs`) | `ScannerState` of a walk | `scan_file`, the parsers and policies, `compare_recipe_metadata` | `FileInspection` |
| Scanner, the walk (`scanner.rs`) | the tree it looks at | `scan_filesystem_report_with_limits` | `SourceScan` |
| Scanner, the requests (`scanner.rs`, `app.rs`) | the reports; talks to the OSV service | both scans and the second walk of an import, `POST .../scans`, `enrich_report_with_osv`, `apply_autonomous_vex_assessments` | `LayerInspection` |
| Layer unpacking (`image.rs`) | the directory it fills | `unpack_layer_archive` | `LayerUnpack` |
| Image archives (`image.rs`) | a temporary directory | `unpack_image_archive` for Docker and OCI archives, `POST .../scans` | `LayerUnpack`, `LayerInspection` |
| Binary analysis (`binary.rs`) | none | `analyze_binary` | `FileInspection`: what it adds to a report |
| Published documents (`metadata.rs`, `app.rs`) | none, computed for every request | SBOM, CBOM, VEX, SLSA, attestation, their manifests, referrers | `MetadataDocuments`, `Publication` |
| HTTP surface (`app.rs`, `main.rs`) | configuration | routing, bearer authentication, content negotiation | which lookup answers what is in `Publication`; the rest is not modelled |
| Digests and models (`digest.rs`, `models.rs`) | none | SHA-256, time stamps, input checks | abstracted |

**How they interact.** Every HTTP request is a handler: a future on a multi-threaded tokio
runtime. Handlers share the files and three tokio mutexes (`recipe_lock`, `vex_lock`,
`evidence_lock`), each taken by writers only; readers list directories without a lock. Records
are written to a temporary name and renamed. A background task runs the sweep at start and every
hour, without a lock. Developers edit the checkout that a recipe points at while it is scanned.
The OSV service answers over the network. Nothing but the files survives a restart.

**What is hard about it.** Handlers interleave at every `await`. A client that hangs up drops
the future of its handler where it stands; its lock is released, its files stay, and a file
operation already with the blocking pool is still carried out. The bytes an import judged and
the bytes a client is sent are tied together by nothing but a digest and a file name, under
which the sweep, other imports and a power loss are at work. Verdict and selection of a layer
are separate reads. Order is taken from time stamps made before the locks. An OSV lookup may
fail in part and change its mind between two scans. `PROJECT.json` lists these hazards, each at
its line, with the property that is about it, or the reason why none is yet.

**What makes each part correct.**
- Materialisation: a succeeded record is bound to stored scans of the very tree and layer it
  names; a denial cannot be undone by later statements unless the recipe admits exceptions;
  every import is answered.
- Serving: streamed bytes hash to the digest asked for and were inspected; the judged record is
  never older than the served one.
- Recipes: the index is exact; equal posts are one recipe; what resolves keeps resolving, unless
  the key of a recipe of another name is spelled like it.
- VEX: acknowledged statements are kept; the published document does not contradict the gate.
- Sweep: a promised layer goes early only for known reasons; every other file goes in the end.
- Publication: the documents published together are about one state of the evidence and agree
  with the verdict; what is named by digest can be fetched; nothing is served of a recipe while its
  evidence cannot be read.
- Inspection: a report is about the very bytes its digest covers, although the tree is edited
  meanwhile; an allowed build has nothing in its source or layer that the scanner knows to forbid,
  and was looked up in full; "fixed" is only said with proof; of the matches in the source, one per
  vulnerability and component name is answered for; declared materials are those in the tree.

## 2. The modules and the code

**`MetadataGate`** holds the verdict as pure operators. `Denies` is the union of the reasons of
`evaluate_gate`: SLSA findings (all of severity High), the newest administrative statement per
(vulnerability, product, component), scan findings of high or critical severity that no
assessment answers for, and assessments that are open, or not bound to the artifact, and that no
exception lifts. `Materialization`, `VexLedger` and `LayerInspection` extend it, so that each of
them judges with the same gate. `MetadataDocuments` holds, in the same way, what `metadata.rs`
publishes: the combined VEX statements, and each document as the record of the evidence its text
depends on, so that equal records are equal digests. `VexLedger` and `Publication` extend it.

**`Materialization`** has one action per segment of a handler between two awaits.
`job[b].pc` names the place in `create_build`: `scan` (`ScanSource`), `intake` (`DenyIntake`,
`StartImport`), `copy` (`CopyLayer` for retained layers, `ValidateInPlace` and then
`DigestInPlace`, a second read, for others), `publish` (`LinkNew`: a hard link, so that one
import alone creates the name), `existing` (`AdoptExisting`), `recheck` (the second digest of
the tree), `inspect`, `decide`, then `save_scan` and `commit` under the evidence lock.
`CommitFails` is the roll-back, which may fail itself. `pull[p].pc` follows
an OCI read: a manifest is judged first and selects its layer afterwards, a blob selects first
(`SelectLayer`, `VerifyLayer`), is judged (`ReadEvidence`, `Judge`) and opened (`OpenBlob`).
Around them: `EditTree`, `AddVex`, `ArtifactExpires`, `SweepRemove`, `Abort` (hang-up or I/O
error), `Crash` (with torn, because unsynced, cached files).

**`EvidenceLedger`** is the abstract specification: an append-only ledger whose entries cite
exhibits that are on file, exhibits that can be withdrawn only while no entry cites them, and
streams that begin only with bytes some entry vouches for. `Materialization` instantiates it
with `exhibits <- scans, ledger <- builds, streams <- ` the bytes of each pull, and is checked to
implement it (`LedgerSpec`).

**`RecipeIndex`** models `create_recipe` from the stamp (`Propose`, before the lock) over the
lookup, the write of the file and the insertions into `recipe_index` and `blob_index`, between
which a handler can be dropped, to the answer; and restarts (`rebuild_index`, in the order of the
stamps). References are tried as a tag, then as a digest (`lookup_recipe`); a config blob is
found by `lookup_blob_recipe`. As in the code the index is *one* map from texts: a text is the
sequence of its parts between colons, `Tag` is a concatenation, and a digest is the two parts
`sha256` and the hexadecimal digits (`Hex`, which stands for what they cover). So the tag of one
recipe can be the digest of another, or its tag. `written` and `given_up` are history: the order of the writes, and
the recipes whose handler ended between the two indexes.

**`VexLedger`** goes down to the file operations of `save_vex_statement`: the statements of a
recipe are one file, written to *one* temporary name and renamed. `Abort` drops a handler
between operations, `Abandon` inside one, which then becomes a member of `strays` and is carried
out later by `CarryOut`. `combined_vex_statements` is what `GET .../vex` publishes and `Verdict`
is the gate's opinion of the same file at the same time.

**`CacheRetention`** replaces instants by ages, so that time is unbounded in a finite model.
`age` is the modification time of each file of the cache directory, `promise` what the latest
record of a recipe promises, `sweep` the recipes and directory listing a running sweep has read.
It refines the moment at which `SweepRemove` of `Materialization` may happen; there, any cached
file may vanish at any time, which covers every schedule.

**`Publication`** is what OCI clients find: `AskForTag`, `AskForReferrers`, `AskForManifest` and
`AskForBlob` start a request, which visits one recipe of the name after the other
(`NextCandidate`) and reads the evidence as often as the code does: `ReadBuilds` and `Judge` for
the gate, `ChooseLayer` for the image, `ListBuilds` and `Publish` for the documents. Between
these reads come `Import`, `FailBuild`, `PostScan`, `AddVex`, `Tick` and `PowerLoss`, which
takes an unsynced file away or leaves it unreadable (`list_builds` then gives a synthetic failed
record, `list_scans` a synthetic scan). `told` collects what answers have named by digest.

**`FileInspection`** is what the scanner makes of a file, as pure operators: one `parse_*` per
format with the dependency policies, crypto material, suspicious text, binaries, long files, and
`compare_recipe_metadata` at the end. A file is a record of what the scanner can tell apart: mode
and length class, whether it is binary, whether its text is well-formed for the parser of its
name, the dependencies it declares, and marks for what else is looked for in a text.
**`SourceScan`** is the walk: a file is met (`Stat`), then read once (`ReadFile`) or, if it is
long, twice (`ReadPrefix`, which takes a file that has gone for an empty one, and `DigestWhole`),
and developers edit the tree before every step (`EditTree`). `raced` and `touched` are history: files that changed while they were looked at,
and files edited since the walk began.

**`LayerUnpack`** gives the result of unpacking one tar, or the layers of an image archive over
one another, as a fold over the entries, and next to it a reference (`Merged`): for each path
the last entry with a say about it. An image archive is its format, the descriptors as far as
they fit, the diff IDs of its config and its layers.
**`LayerInspection`** composes these: the walk over the source (`Walk` to `FinishWalk`), the OSV
lookup, chunk by chunk, the intake gate, the second walk and the comparison of the digests
(`Recheck`), the unpacking of the layer, its scan and lookup, the autonomous assessment and the
gate, with `Edit` in between; and `POST .../scans` of a source, a directory or an image archive,
which end without a verdict. The tree of the layer is nobody else's and is inspected in one step.

**`FoldSteps`** has no behaviour: lemmas about the states a fold goes through, for the proof that
`LayerUnpack` does what its reference says.

The `MC*` modules give constants their values and define symmetry sets; they define no behaviour.

### Abstractions

- SHA-256 is collision free: a digest *is* what it covers. `None` stands for an absent value.
- Time stamps are totally ordered and distinct. The code compares RFC 3339 strings, of which
  some within one second sort wrongly; this is listed as a hazard.
- A walk of a directory is one step in `Materialization`, which is about what happens between
  walks; `SourceScan` has the steps of one.
- A JSON record is written and renamed in one step, except in `VexLedger`. In the other modules
  an operation of an abandoned handler counts as done before or not at all.
- In `Materialization` the assessments of a layer scan are arbitrary members of `Assessments`;
  `LayerInspection` has how they come about. In `LayerInspection` the order in which assessments
  are added is left open. In `Publication` an import is one step; `Materialization` has its steps.
- A finding *mentions* vulnerabilities; the code looks for their identifiers in its message.
- Edits during a walk write, replace or remove files; they do not turn a file into a symlink or
  back, nor move directories under the walk. A scan's file limit and byte limit are one limit.
- A version is a number and the form it is written in (plain, with an operator of a pin, a range,
  a word like `latest`, or a range in a line that has `==` all the same); a source is a registry, a
  reference with one of the prefixes the scanner knows (remote or local), one with none of them, a
  bare path, or a place in the manifest that is not read.
- Entries of a tar with an unsafe path have the empty path. The layer of a build counts as
  uncompressed; layers of images have an allowance by their size if they are compressed. The
  unpacking of the archive around the layers either works or makes it neither format.
- The target of a symlink in a tar is the path of the tree it leads to. The entries never go through
  a symlink (`create_safe_parent`), but making the hard links in the end does (`Followed`). A path
  through two symlinks one after the other leads nowhere in the model, and the unpacking fails.
- Left out: OSV result pages, and fractions of a second in time stamps.

## 3. What TLC checks

| Run | Instance | Checks |
|---|---|---|
| `MaterializationImports` | 1 recipe, 2 layers and a file that is none, 2 imports at a time, 2 in all, 1 statement, all trees | `TypeOK`, `EvidenceBound`, `QuarantineIsPermanent` |
| `MaterializationServing` | 2 recipes sharing a layer, 2 layers, 1 import at a time, 2 in all, 1 pull | `ServedBytesWereScanned`, `OvertakenOnlyForward`, `JudgedBlobWasApproved`, `LedgerSpec` |
| `MaterializationProgress` | 1 recipe, 1 layer, 2 imports, trees the intake allows and denies, fair | `BuildsAnswered` |
| `MaterializationQuarantine` | 1 recipe, 2 layers, 1 import at a time, 1 pull | refutes `QuarantineHolds` |
| `RecipeIndex` | 6 inputs (equal, same tag, and three whose name and revision have another's digest in them: as the revision, as the tag, as the end of the tag), 2 clients, 3 posts, fair | `LookupIsExact`, `AnsweredResolves`, `ConfigsKnown`, `StaysResolvable`, `RestartMovesOnlyRaces`, `CreatesAnswered` |
| `VexLedger` | 3 layers (clean, open, affected), 2 clients, 3 statements of 5 kinds, 2 instants | `NothingLost`, `PublishedAgrees` |
| `VexLedgerHangUp` | the same | refutes `AcknowledgedIsDurable` |
| `VexLedgerExpiry` | the same | refutes `ExceptionsExpire` |
| `CacheRetention` | 3 recipes (for ever, long, short), 1 layer, 1 import at a time, unbounded time, fair | `EvictionsExplained`, `BytesAreDisposable` |
| `LayerInspection` | every tar of up to 3 of 13 entries, with a symlink and hard links through it, and escaping ones; all policies with pairs of contents; every kind of file with each thing that may be amiss; 2 edits of 12 kinds during the walks; a lock file among namesakes; images of 2 layers with 3 entries, and misdescribed ones; chunks of 1, failing; 3 advisories that come and go | `UnpackedIsMerged`, `ScanIsOfItsDigest`, `SourceIsAsScanned`, `AllowedWasLookedUp`, `FixedIsProven`, `SubjectsAnswered`, `AllowedIsClean`, `MaterialsAreTheirs` |
| `Publication` | 2 recipes of one name (one admits exceptions and expires), 2 layers, 2 imports, 1 statement a recipe, 1 posted scan, expiry or power loss | `DocumentsNotOlder`, `SetAgreesWithGate`, `UnreadableIsNotServed`, `NamedIsServed`, `EndpointAgrees` |
| `PublicationDigest` | the same | refutes `AdvertisedManifestResolves` |

What the passing runs show:
- *Imports*: `EvidenceBound` holds through edits of the tree between scan, copy and digest,
  adoption of another import's file, sweeps, failed commits, hang-ups and power losses: the
  chain of evidence of a succeeded import is complete on disk before the record exists.
  `QuarantineIsPermanent`: later scans and statements cannot lift a denial of a recipe that
  admits no exceptions, because the gate looks at the scan the record is bound to.
- *Serving*: between the verification of the file and its opening the name may be unlinked and
  linked again, but only to the same bytes; a file torn by a power loss is never verified.
  `OvertakenOnlyForward` says which way the two reads of the evidence can differ, and
  `JudgedBlobWasApproved` that a blob is approved whenever they agree. `LedgerSpec`
  is the refinement of the abstract ledger.
- *Progress*: no hang-up or crash takes the evidence lock along.
- *RecipeIndex*: two clients that post the same recipe get one recipe, whatever files earlier
  hang-ups left behind. A restart goes by the stamps where the running index goes by the lock;
  `RestartMovesOnlyRaces` says which references that can move: only to a recipe that was posted
  at the same time, or that was stored but never answered. `ConfigsKnown` says when a config
  cannot be had: after a hang-up between the two indexes, until the next restart. Since tags and
  digests are keys of one map, `AnsweredResolves` holds of a post unless a recipe has a tag that is
  spelled like its digest, or, for what it resolves to, like its name and digest, as references are
  tried as tags first. `StaysResolvable` holds of a reference unless a recipe of another name gets a
  key spelled like it, which `lookup_recipe` then finds and discards. The run has such recipes of
  each kind, and neither property holds in it without its exceptions.
- *VexLedger*: no statement is lost between concurrent clients, except through the finding
  below; whenever the gate allows, the published document has no open vulnerability, across
  rebuilds between the checks of `add_vex` and its write.
- *CacheRetention*: the three situations in which a sweep removes a layer that may still be
  served, and no others; private copies of dead imports do not stay. The first situation, a file
  that was old already when it was promised, has a variant that takes two imports at a time: the
  file is swept after the promise was computed, and another import puts an aged copy back. The
  run has one import at a time; the theorem `Evictions` has any number.
- *LayerInspection*: whiteouts, opaque entries and replaced parents, within a layer and across
  layers, leave exactly the files that the digest, or the image's config, stands for. A report
  judges the bytes its digest covers while files are rewritten and removed under the walk, with
  the one exception of files that are long before or after they change, whose first bytes are read
  apart; and an edit between the walk and the taking of the layer is not missed. `AllowedIsClean`
  compares the verdict with a definition of what the scanner knows to forbid, file by file and by
  the signs it goes by: no limit, no order of files, no unreadable neighbour and no pairing of
  `go.mod` with another `go.sum` hides any of that. What README 100 forbids is more (section 4). A
  chunk that fails never turns into an allowed layer, and "fixed" is not said of a component
  because of a namesake in another ecosystem. Of several matches with one vulnerability and
  component name, however, one answer is all an allowed layer needs (`SubjectsAnswered`); that the
  others may go without is a difference from README 113 (section 4).
- *Publication*: the evidence is read twice for an index of referrers and moves only forward in
  between; if it has not moved, documents, verdict and layer agree. After a power loss nothing is
  served of a recipe one of whose records, or whose statements, cannot be read, nor from a record
  whose scans are missing or cannot be read. A record or statement that is lost altogether leaves
  no trace: what is left decides, even if what is lost denied. Everything named by digest is
  served, with two exceptions: a layer it shares with an older, denied recipe of its name, and
  the finding below.

**Bounds.** Two handlers of a kind are what the mutual-exclusion and overtaking arguments need,
and a third would meet the same states: handlers interact pairwise through one lock or one file
name. Two imports give an older and a newer record, which is all that "latest" tells apart. Two
recipes give a digest, or a name, that is shared. Three statements give one that supersedes and
one that supersedes again. Three recipe posts are one that is stored, one that takes its key and
one that finds out, or two that race and one that repeats a post after a restart.
Three tar entries are enough for "make, erase, make again"; other tars hold one entry or one
file more than their limits. Two edits are a change and its reversal, or one in each walk. Two
files are a scan's limit, so that a third one meets it. The bounds are the constants `MaxBuilds`,
`MaxVex`, `MaxEvents`, `MaxRecipes`, `MaxPosts`, `MaxEdits`, `MaxTime`, `MaxAge` (a saturating
cap, no bound on behaviours) and the limits of the code itself, made small (`ChunkSize`,
`MaxScanFiles`, `MaxEntries`, `MaxUnpackedBytes`, `MaxLayers`). Symmetry is used for handlers and
for layers, and only in runs without liveness properties. All properties of the passing runs were
broken with a mutant of the code each (`mutants` in `PROJECT.json`); the mutated definitions
stand next to the originals and are marked `Mutant:`.

**Fairness.** `Materialization` and `RecipeIndex` assume that a handler that can take a step
takes one (the runtime polls ready futures), which is weak fairness of each handler, and strong
fairness of getting the lock: tokio's mutex is first come, first served, and holders release
it within a bounded number of steps. Clients, developers, expiry, sweeps and crashes are not
fair: nothing has to happen. `CacheRetention` assumes that time passes, that the interval timer fires
(`StartSweep` waits only for the previous sweep, hence strong fairness) and that the removal of
a file that is due again and again does not fail every time; the code retries it every hour.
Deadlock is checked in every run.

## 4. Where the code and its documentation differ

Each is a run that TLC refutes, with the counterexample as the explanation.
1. `MaterializationQuarantine`: a blob request selects the layer of the latest record, a denied
   one; an approved import of another layer is committed; the verdict is taken from it, and the
   denied layer is streamed (`app.rs` 2548 and 2568; README 498).
2. `VexLedgerHangUp`: a write or rename of an abandoned handler is carried out after its lock has
   gone to the next one. Both use one temporary name, and an acknowledged statement is gone
   (`store.rs` 397, 444).
3. `VexLedgerExpiry`: an exception that has expired still supersedes the `affected` statement
   before it, and the gate allows (`gate.rs` 119; README 119).
4. `PublicationDigest`: a tag is served with the digest of its manifest, but references by digest
   are looked up among recipes and metadata documents only, so that asking for the manifest by
   that digest is answered 404 (`app.rs` 2414; README 180).

Met while modelling, and built into the properties rather than refuted:
- `recipe_index` has the keys `name:revision` and the digests in one map. A recipe of name
  `sha256`, with the hexadecimal part of another recipe's digest for a revision, takes its place: the
  other one is not found by its digest any more, and when it is posted again the answer is the
  recipe in its place (`store.rs` 90, 185 and 206; README 33 wants stable identities).
  `AnsweredResolves` and `StaysResolvable` have the exceptions.
- A requirement counts as pinned if its line has `==` anywhere, sources are told by ten prefixes, which
  `ssh://` and `git://` are not among, and some tables and lines of manifests are not read. Such
  sources are allowed (`scanner.rs` 2125, 2157 and 990; README 100 says that unpinned specs and
  direct sources are flagged). `Loose` in `LayerInspection` leaves them out.
- Assessments are kept per vulnerability and component name. "Fixed" of a crate in the layer answers
  for a package of the same name as well, which is absent from the layer (`scanner.rs` 428; README
  113 wants `under_investigation` and a denial). `SubjectsAnswered` claims no more than one answer.
- A layer that one recipe keeps for ever (TTL 0) and another one for a while is swept on the
  other's schedule (`store.rs` 144; one of the reasons in `EvictionsExplained`). Two recipes of
  one tag that race can change places at a restart (`store.rs` 80; `RestartMovesOnlyRaces`).
- Versions are compared as texts and OSV is asked about declared versions as they are written: a
  layer that declares `=1` where the source has `1` counts as another version (`scanner.rs` 385;
  README 112 speaks of a changed exact version). `FixedIsProven` says what is left.
- A bare `path = "../x"` in `Cargo.toml` has none of the prefixes of a local source
  (`scanner.rs` 2150; README 98), and `packages.lock.json` may have a word for a version
  (`scanner.rs` 2404). `Loose` in `LayerInspection` says what is caught instead.
- Legacy algorithms named in a text are a hint of severity Medium at most and deny nothing
  (`scanner.rs` 1677; README 159 says that they do).
- In a `Cargo.lock` that does not parse, packages without a version need no checksum. Nested
  dependencies of a version 1 `package-lock.json` are not read; the models do not see them either.
- A power loss can take the newest record or statement altogether, and what is left may allow what
  it denied (`store.rs` does not sync; `UnreadableIsNotServed` says what holds).

## 5. What is proved

The theorems hold for every value of the constants that satisfies the assumptions named in the
modules, which TLC evaluates in the runs. Each module named `..._proofs` is about one component.

| Module | Theorems | Inductive invariant |
|---|---|---|
| `Materialization_proofs` | `TypeCorrect`, `EvidenceIsBound`, `ServedBytes`, `LedgerRefinement`, `DenialIsPermanent`, `OvertakenForward`, `JudgedIsApproved`, `Invariance` | `IInv`, `PullInv`, `LedgerInv`, `VerdictInv`, `JudgedInv` |
| `RecipeIndex_proofs` | `TypeCorrect`, `IndexIsExact`, `StableReferences`, `AnswersResolve`, `ConfigsAreKnown`, `RestartMoves` | `IInv`, `AnswerInv` |
| `VexLedger_proofs` | `AcknowledgedIsKept`, `DocumentAgrees` | `LedgerInv` |
| `CacheRetention_proofs` | `Evictions` | `RetentionInv` |
| `Publication_proofs` | `DocumentsAreNotOlder`, `CorruptFilesFailClosed`, `DocumentsAgree`, `EndpointGivesWhatIsNamed`, `NamedIsFound` | `RequestInv`, `NamingInv` |
| `LayerInspection_proofs` | `Invariance`, `TreeIsAsScanned`, `FixedHasProof`, `SubjectsAreAnswered`, `MaterialsAreDeclared`, `UnpackingMerges`, `InspectedFilesAreClean`, `InspectedFilesAreLookedUp`, `AllowedBuildIsClean`, `AllowedBuildIsLookedUp`, `ScanJudgesWhatItDigests` | `IInv`, `UnpackInv`, `MergedInv`, `DigestInv` |
| `FoldSteps` | the lemmas `FoldStates` and `EndIsReached`, for `LayerInspection_proofs` | |
| `MetadataDocuments_proofs` | the lemma `AllowedIsClosed`, for `VexLedger` and `Publication` | |

`PROJECT.json` pairs the theorems with the properties of the runs they state. TLC has checked every
inductive invariant on the instance of the component's run before it was proved, but for two that
are too slow to evaluate there: `NamingInv` up to depth 28, and `IInv` of `LayerInspection_proofs`
with its parts about the contents of files up to depth 8.

**Materialization, the chain of evidence.** `EvidenceBound` alone is not inductive: that a record
about to be committed is bound to its scans depends on what its handler has gathered. `IInv` adds
- `Gathered(b)`: what each place of `create_build` may rely on. From `recheck` on the artifact is
  the declared one; from `inspect` on it is retained; from `decide` on there is a scan of exactly
  these bytes; at `commit` that scan is on file;
- `FileIntact(b)`: between publication and inspection the cached file has the bytes of its name
  or none. A power loss tears files, but it ends all handlers too;
- `FreshIds`: scan identifiers are unique, also among scans not yet saved, and no record cites a
  pending one, so that the roll-back of a failed commit never removes a cited scan;
- `RecordBacked(r)`: the part of `EvidenceBound` that does not choose a scan.

There is one lemma per action of a handler, resting on a few frame lemmas: `HandlerStep` (a
step that changes one handler only), `AbandonStep`, `GotoStep`, `AppendRecord`. `ServedBytes` needs
one more invariant, `PullInv` over `Selected(p)`: a selected layer is one of a stored record, its
file was verified and can only vanish, not change. It is proved relative to `IInv`, since what
is linked under a name is right only because imports are. The assumptions are that constants have
their types, that a recipe's policy carries its own digest, that statements have one of the four
statuses of `models.rs`, and that `None` and `Torn` are no values of the sets they are added to.

**Materialization, its history.** For the refinement of `EvidenceLedger`, `LedgerInv` adds that
stamps are drawn once, also by handlers that have not committed (`Stamped`: an appended entry has
an id of its own), that a cited source scan is on file as digested (`CitesFiled`: entries cite
filed exhibits) and that no pull has bytes before it is served. Every step then is `File`,
`Append`, `Withdraw`, `Stream` or `Stop` of the ledger, or a stutter (`ImportImplements`, `StepImplements`).
`DenialIsPermanent` rests on `VerdictInv`: the denial in a record, and in a handler that is about to
save one, is still what the gate says of the scan it is bound to and of the statements as they
are now. A recipe without exceptions only accepts statements that deny, and the last statement
is the newest of its key. `OvertakenForward` and `JudgedIsApproved` rest on `JudgedInv`: the record
that a pull has judged is on file and, for a blob, at least as late as the one it selected, for
manifests the other way round. That the latest record exists at all, and only gets later, is a
lemma by the well-foundedness of the stamps.

**RecipeIndex.** `LookupIsExact` is not inductive: after a second file with the same identifier
`get_recipe` may find another recipe than the one indexed. `IInv` adds that identifiers are unique
on disk and below the clock, that no two handlers have the same one (`OwnRecipes`), and that a
handler's recipe is not on disk before its write and stays there after it (`Jobs`). A restart keeps
the index exact because among recipes with stamps below the clock one is the newest
(`NewestExists`, by the well-foundedness of `Nat`). None of this needs `recipe_lock`, and nor does
`StableReferences`: a key that names a recipe never stops naming one (`KeysStay`), and one it
names has the key (`FoundHasKey`), so that a reference which some key knows is found unless it is
contested by another name (`UncontestedIsFound`). The answers do need the lock:
`AnswerInv` has it in `Exclusive`, and from it that between the lookup and the insertion nobody
else posts the same content (`Posts`), that what was answered is what its digest finds as long as
no other recipe has that key (`AnsweredCurrent`), that an indexed recipe without a config is one
whose handler is between the indexes or has given up there (`Configs`), and, for `RestartMoves`,
that a key which has gone from a recipe to one with an older stamp, be it a tag or a digest, has
gone to one that was written later (`AllWritten`, `KeyOrder`): a restart disagrees with the running
index only where stamps and writes disagree. That a key names one recipe, or several that differ,
is compared through what its parts are: recipes with one digest have one name (`SameName`).

**VexLedger.** `LedgerInv` says that, as long as nobody was abandoned inside a file operation,
the holder of `vex_lock` alone is in one, and writes the file as it is with its own statement
behind (`Locked`), and that identifiers are not used twice (`Distinct`); then what is acknowledged
is stored. Through any disturbance the statements are such as `add_vex` lets through (`Posted`),
which is all that `DocumentAgrees` needs besides `AllowedIsClosed`: for such statements, any
assessments and any time, the newest statement of each key decides in the gate and in the
document alike, so that the document of an allowed artifact has no open vulnerability. The same
lemma serves `Publication`.

**CacheRetention.** `RetentionInv` relates two clocks: the file of a promised layer that was not
old when promised reaches the TTL no sooner than the promise runs out (`Outlives`), and so for
an import that has computed a promise but not recorded it. Of finitely many recipes one has the
longest TTL, which the sweep goes by (`LongestTtl`, from a least counterexample). The attempt to
prove this showed the variant with two imports (section 3), which the model had not counted.

**Publication.** `StoreInv` is what files can be on disk. `RequestInv` adds what a request under way
may rely on when files become unreadable behind it (`FilesInv`) and records are added
(`SinceInv`): the record that documents are made of is no older than the subject's. `NamingInv` is
about what answers have named: the evidence behind it is still the latest and allowed
(`ToldInv`); what a request has read of a recipe that has not changed meanwhile is still so
(`SteadyInv`); a search for what was named stops at its recipe at the latest, unless an older
recipe of the name with the same layer is denied (`SearchInv`, `WantInv`).

**LayerInspection.** `IInv` consists of what a request is at each place (`RequestInv`), the walk,
the report and the lookup.
- `WalkInv`: a path that nobody touched since the walk began is still due, being looked at as
  it is, or digested as it is. With the second walk and its comparison this is `TreeIsAsScanned`.
- `Sound`: whatever is added as a candidate for a statement comes with a finding that forbids, and
  no parser's finding passes for one of OSV. It is proved parser by parser.
- `ReportInv`: an intake that lets a source pass has assessments of OSV matches only, and has seen
  that the declared materials fit; hence `MaterialsAreDeclared`.
- `VettingInv`: what is in the inventory has been looked at. `Vetted` says what that means for a
  file: its components are listed, and the scanner has a finding that forbids, or the file is
  `Clean` and the modules it requires are kept. `LooseIsFlagged` is the converse of `Sound`, parser
  by parser; `SumsAreOf`, that a checksum is of a `go.sum` of the inventory, is what the
  comparison of `go.mod` with `go.sum` at the end of the walk rests on. With the limits, which
  forbid, this is `CleanExcept`, which a report that passes the intake or the gate satisfies.
- `LookupInv`: a component that was asked about was answered for, or the lookup counts as failed,
  which forbids if a lookup is required; the components of each file are among those to ask about
  (`Vouched`); an answer is an assessment of the report. Together with the matching by name and
  version this gives `FixedHasProof`, `SubjectsAreAnswered` and `InspectedFilesAreLookedUp`.

`UnpackingMerges` says that the tree which is scanned is the reference `Merged` of the entries that
the digest of the layer, or the config of the image, stands for, wherever no hard link leads: for
tars of any length and images of any number of layers. Its proof has four parts.
- *Folds.* `FoldLeft` applies a function defined by recursion over sets of positions. `FoldSteps`
  shows that this function exists (for the first n + 1 positions if it does for the first n), and
  that a fold over a sequence is therefore a run with a state after each element (`FoldStates`).
  The induction is that the smallest number outside a set would have a predecessor in it
  (`NumbersAreReached`, from the well-foundedness of `Nat`). The module takes the operator as its
  constant `Op` and is instantiated for `UnpackEntry`, `MakeLink` and `UnpackLayer`.
- *Trees.* Every path of a tree has real directories above it (`IsTree`); removing, creating
  parents and putting a node where there is room for it keep this.
- *One entry.* `EntryFollows`: at each path an entry has a say about, the tree has what it
  says, and all other paths are as they were. `LinkPlaces`: a hard link changes nothing
  but at the path it leads to and below; that is its own path, or one through a symlink of the
  entries (`FollowedIs`, since the symlinks of the tree are those of the entries: `Traced`).
  `Unlinked` has to leave both aside: when a symlink has taken the place of the directory of a link, the
  link is made where the symlink leads, at a path that no entry names.
- *All entries.* `Unpacks` is the invariant of the unpacking: unless it has failed, the tree has at
  each path what the last entry with a say so far says (`Agrees`), which for all entries is
  `Merged`. It is kept by each entry, by the hard links made in the end, and so by a tar over
  whatever layers are below it (`TarUnpacks`).

The entries of a tar and the layers of an image must be lists, and so must paths and the targets of
symlinks (`TarsAssumption`). `UnpackInv` adds to the property that what is about to be unpacked is
a request's.

`InspectedFilesAreClean` and `InspectedFilesAreLookedUp` speak of the tree as it was unpacked, hard
links included. `AllowedIsClean` and `AllowedWasLookedUp` speak of the files the layer's tars stand
for by the reference. `MergedInv` connects the two: while a verdict is due, and when it is to allow,
the unpacked tree has these files.

`ScanJudgesWhatItDigests` rests on a scan being the sum of its files. `Plus` relates a step of a
scanner that has found something to the same step of one that has found nothing; every operator
of `scan_file` keeps it. `AddsUp` is the invariant of the walk: the findings, the cryptography,
the components and the modules are those of the files of the inventory, each looked at alone, and
no others. Two things the property leaves open, since the code does. What a manifest declares that
grows beyond the limit between `Stat` and `ReadFile` may be listed, and asked for in `go.sum`,
while another scan says that it is too large (the run has such an edit); so of the findings that
relate files to each other it speaks only if no file changed in that way. And whether a material
that is not a file counts as seen, a finding of severity Low, depends on the file a shared
component is listed for, hence on the order of the walk.

**Only model-checked.**
- Liveness (`BuildsAnswered`, `CreatesAnswered`, `BytesAreDisposable`), beyond the prover as
  `ENABLED` is.

Every invariant and every action property of a passing run is a theorem.

## 6. What is not modelled

- How texts and object files are read character by character: JSON, TOML, YAML, XML, PEM, tar
  headers, ELF symbols. They enter the models as what the parsers find (`FileInspection`).
- The layout and wording of documents and answers, and the JSON of image manifests.
- Routing, bearer authentication and content negotiation: decisions of a single request, without
  state. Hang-ups are an action of every module that has handlers.
- Time stamps as the text they are compared by: the models use a total order.
- Other file systems than a POSIX one; several registries on one data directory.

## 7. Plan

In the order of importance. Done: `MetadataGate`, `Materialization` with `EvidenceLedger` and
its proofs, `RecipeIndex` and its proofs, `VexLedger`, `CacheRetention`, `MetadataDocuments` and `Publication`,
`LayerUnpack`, `FileInspection`, `SourceScan`, `LayerInspection`.

Nothing is left to prove but liveness. `UnpackedIsMerged` leaves the paths of hard links aside:
what a link leaves there depends on the order among the links and on what became of their targets, for
which the project has no reference apart from the code.
