--------------------------- MODULE LayerInspection ---------------------------
(***************************************************************************)
(* What becomes of a vulnerability on the way from the source tree to the  *)
(* verdict (src/scanner.rs, called by create_build in src/app.rs): the     *)
(* source scan and its OSV lookup, the intake gate, the unpacking and scan *)
(* of the exact layer with a lookup of its own, the autonomous assessment  *)
(* of what the source lookup had found, and the gate.                      *)
(*                                                                         *)
(* A lookup asks the OSV service chunk by chunk.  Each chunk may fail, or  *)
(* is answered by what is published by then.  The source tree is walked    *)
(* while it is being edited, and walked again before anything is made of   *)
(* the scan.  POST .../scans of a source tree, of a directory or of an     *)
(* image archive takes the same ways without a verdict.  Trees map paths   *)
(* to nodes, the content of a file is that of FileInspection.              *)
(***************************************************************************)
EXTENDS LayerUnpack, SourceScan

CONSTANTS
    Advisories,     \* that OSV may publish: [ecosystem, name, versions, vulnerability]
    Requests,       \* builds [kind, mode, recipe, tree, edits, tar], scans of sources and
                    \* directories [kind, mode, recipe, tree, edits], of images [.., image]
    ChunkSize,      \* components per OSV request
    MaxEdits        \* bound: edits of the tree during a request

IsNode(node) == node.kind = "file" => IsContent(node.content)

ASSUME InspectionAssumption ==
    /\ ChunkSize \in Nat \ {0} /\ MaxEdits \in Nat
    /\ None \notin {"allowed", "denied"} /\ None # FALSE
    /\ \A q \in {q \in Requests : q.kind # "image"} :
          /\ \A p \in DOMAIN q.tree : p # None /\ IsNode(q.tree[p])
          /\ \A e \in q.edits :
                /\ e.path # None
                /\ e.node # None => e.node.kind = "file" /\ IsNode(e.node)

\* What the digest of a layer stands for is always a tar, of a build or of each layer of an image.
ASSUME TarsAssumption ==
    \A q \in Requests :
        /\ q.kind = "build" => IsTar(q.tar)
        /\ q.kind = "image" =>
              /\ IsList(q.image.layers)
              /\ \A i \in 1..Len(q.image.layers) : IsTar(q.image.layers[i].tar)

VARIABLES
    pc,         \* "idle", "walk", "source", "intake", "rewalk", "unpack", "layer", "assess", "done"
    request,
    edits,      \* edits of the tree so far
    rootfs,     \* the unpacked layer
    source,     \* the source report
    report,     \* the report being made
    sent,       \* components whose chunk has been sent
    osv_failed,
    matches,    \* what the service has answered: <<component, its vulnerabilities>>
    verdict

walkVars == <<edits, scanVars>>
lookupVars == <<sent, osv_failed, matches>>

vars == <<pc, request, rootfs, source, report, verdict, lookupVars, walkVars>>

NoReport ==
    [recipe_digest |-> None, layers |-> {}, components |-> {}, crypto |-> {}, findings |-> {},
     assessments |-> {}, filesystem |-> << >>, raced |-> {}, osv |-> None]

Init ==
    /\ pc = "idle" /\ request = None /\ edits = 0 /\ rootfs = << >>
    /\ source = NoReport /\ report = NoReport
    /\ sent = {} /\ osv_failed = FALSE /\ matches = {} /\ verdict = None
    /\ InitScan

-----------------------------------------------------------------------------
(***************************************************************************)
(* Reports.                                                                *)
(***************************************************************************)
\* `filesystem` is what the report's filesystem digest covers.
Report(st, recipe, layers) ==
    [NoReport EXCEPT !.recipe_digest = recipe.digest, !.layers = layers,
                     !.components = st.components, !.crypto = st.crypto,
                     !.findings = st.findings, !.assessments = st.candidates,
                     !.filesystem = st.digests]

\* Of an unpacked layer, which nobody else sees.  A scan that meets its limit looks at some
\* of the files only, and says so.
LayerReports(t, recipe, layers) ==
    LET few == Cardinality(FilesOf(t)) <= MaxScanFiles
        Scanned(files) == Report(InspectTree(recipe, t, files, FALSE), recipe, layers)
        CutShort(r) == [r EXCEPT !.findings = @ \cup {Finding("scan-incomplete", "high", None)}]
    IN  IF few THEN {Scanned(FilesOf(t))}
        ELSE {CutShort(Scanned(f)) : f \in kSubset(MaxScanFiles, FilesOf(t))}

-----------------------------------------------------------------------------
(***************************************************************************)
(* enrich_report_with_osv.                                                 *)
(***************************************************************************)
InLookup == pc \in {"source", "layer"}
LookupEnds == pc' = IF request.kind # "build" THEN "done"
                    ELSE IF pc = "source" THEN "intake" ELSE "assess"

ecosystem(kind) ==
    CASE kind \in {"cargo", "cargo-declared"} -> "crates.io"
      [] kind \in {"npm", "npm-declared"} -> "npm"
      [] kind \in {"pypi", "go", "maven", "nuget"} -> kind
      [] OTHER -> None

Queries == {c \in report.components : ecosystem(c.kind) # None}

\* The next of them, in the order of the report.
Chunk ==
    LET waiting == Positions(Queries \ sent)
        next == {i \in waiting : Cardinality({j \in waiting : j < i}) < ChunkSize}
    IN  {c \in Queries \ sent : \E i \in next : KeyOf(c) = Catalogue[i]}

\* The service knows a component without a version by all its advisories.
VulnerabilitiesOf(c, advisories) ==
    {a.vulnerability : a \in {a \in advisories : /\ a.ecosystem = ecosystem(c.kind)
                                                 /\ a.name = c.name
                                                 /\ c.version \in a.versions \cup {None}}}

Matched(cs, advisories) == UNION {{<<c, v>> : v \in VulnerabilitiesOf(c, advisories)} : c \in cs}

FindingOf(c, v) ==
    [Finding("known-vulnerability", "high", c.evidence) EXCEPT !.mentions = {v}]

AssessmentOf(c, v, status) ==
    [vulnerability |-> v, component |-> c.name, evidence |-> c.evidence, status |-> status]

LookupDisabled ==
    /\ InLookup
    /\ request.mode = "disabled"
    /\ report' = [report EXCEPT !.osv = "disabled",
          !.findings = @ \cup {Finding("osv-lookup-disabled",
                                       IF request.recipe.require_osv THEN "high" ELSE "info", None)}]
    /\ LookupEnds
    /\ UNCHANGED <<request, rootfs, source, verdict, lookupVars, walkVars>>

NothingToLookUp ==
    /\ InLookup
    /\ request.mode # "disabled"
    /\ Queries = {}
    /\ report' = [report EXCEPT !.osv = "not_applicable"]
    /\ LookupEnds
    /\ UNCHANGED <<request, rootfs, source, verdict, lookupVars, walkVars>>

Sending == InLookup /\ request.mode # "disabled" /\ Queries \ sent # {}

\* Every match is a finding; in the exact layer it means affected, in the source tree that
\* the layer has to be assessed.
ChunkAnswered(advisories) ==
    /\ Sending
    /\ report' = [report EXCEPT
          !.findings = @ \cup {FindingOf(m[1], m[2]) : m \in Matched(Chunk, advisories)},
          !.assessments = @ \cup
              {AssessmentOf(m[1], m[2], IF pc = "layer" THEN "affected" ELSE "under_investigation") :
                  m \in Matched(Chunk, advisories)}]
    /\ sent' = sent \cup Chunk
    /\ matches' = matches \cup {<<c, VulnerabilitiesOf(c, advisories)>> : c \in Chunk}
    /\ UNCHANGED <<pc, request, rootfs, source, osv_failed, verdict, walkVars>>

\* No answer, an error, or an answer that does not fit the chunk: the next one is sent.
ChunkFails ==
    /\ Sending
    /\ sent' = sent \cup Chunk
    /\ osv_failed' = TRUE
    /\ UNCHANGED <<pc, request, rootfs, source, report, matches, verdict, walkVars>>

\* Mutant: what counts is whether the service answered at all.
FailureFindingUnlessAnswered ==
    IF ~osv_failed \/ matches # {} THEN {}
    ELSE {Finding("osv-lookup-failed", IF request.mode = "required" \/ request.recipe.require_osv
                                       THEN "high" ELSE "medium", None)}

FailureFinding ==
    IF ~osv_failed THEN {}
    ELSE {Finding("osv-lookup-failed", IF request.mode = "required" \/ request.recipe.require_osv
                                       THEN "high" ELSE "medium", None)}

FinishLookup ==
    /\ InLookup
    /\ request.mode # "disabled"
    /\ Queries # {} /\ Queries \subseteq sent
    /\ report' = [report EXCEPT !.osv = IF osv_failed THEN "failed" ELSE "completed",
                                !.findings = @ \cup FailureFinding]
    /\ LookupEnds
    /\ UNCHANGED <<request, rootfs, source, verdict, lookupVars, walkVars>>

-----------------------------------------------------------------------------
(***************************************************************************)
(* apply_autonomous_vex_assessments.                                       *)
(***************************************************************************)
is_osv_assessment(scan, a) ==
    \E f \in scan.findings : /\ f.category = "known-vulnerability"
                             /\ f.evidence = a.evidence
                             /\ a.vulnerability \in f.mentions

\* The component a source assessment is about: the first of that name in that file.
SourceComponent(a) ==
    FirstComponent({c \in source.components : c.name = a.component /\ c.evidence = a.evidence})

\* Its counterpart: the first one of that name and ecosystem in the layer.
ArtifactComponent(s) ==
    LET normalized_ecosystem(kind) == IF ecosystem(kind) = None THEN kind ELSE ecosystem(kind)
    IN  FirstComponent({c \in report.components :
                           /\ c.name = s.name
                           /\ normalized_ecosystem(c.kind) = normalized_ecosystem(s.kind)})

ArtifactIsAffected(a) ==
    \E b \in report.assessments : /\ b.vulnerability = a.vulnerability
                                  /\ b.component = a.component
                                  /\ b.status = "affected"

Changed(s, c) == s.version # None /\ c.version # None /\ s.version # c.version

\* Mutant: another version of the component is enough, whatever became of the lookup.
ConclusionByVersion(a) ==
    LET s == SourceComponent(a)
        c == IF s = None THEN None ELSE ArtifactComponent(s)
    IN  IF c # None /\ Changed(s, c)
        THEN [a EXCEPT !.status = "fixed", !.evidence = c.evidence]
        ELSE [a EXCEPT !.status = "under_investigation"]

\* Fixed, if the layer has another version and a completed lookup did not report the
\* vulnerability; otherwise inconclusive, also when the component is not there.
Conclusion(a) ==
    LET s == SourceComponent(a)
        c == IF s = None THEN None ELSE ArtifactComponent(s)
    IN  IF report.osv = "completed" /\ c # None /\ Changed(s, c)
        THEN [a EXCEPT !.status = "fixed", !.evidence = c.evidence]
        ELSE [a EXCEPT !.status = "under_investigation"]

SameSubject(a, b) == a.vulnerability = b.vulnerability /\ a.component = b.component

\* Mutant: a component that is not in the layer needs no assessment.
ToAssessIfPresent ==
    {a \in source.assessments :
        /\ is_osv_assessment(source, a) /\ ~ArtifactIsAffected(a)
        /\ ArtifactComponent(SourceComponent(a)) # None}

ToAssess ==
    {a \in source.assessments : is_osv_assessment(source, a) /\ ~ArtifactIsAffected(a)}

\* The assessments are added in the order of the source findings, one per vulnerability and
\* component name; which one comes first is left open.
AppliedTo(assessments) ==
    {assessments \cup {Conclusion(a) : a \in chosen} : chosen \in
        {set \in SUBSET ToAssess :
            /\ \A a, b \in set : SameSubject(a, b) => a = b
            /\ \A a \in set, b \in assessments : ~SameSubject(a, b)
            /\ \A a \in ToAssess : \E b \in set \cup assessments : SameSubject(a, b)}}

-----------------------------------------------------------------------------
(***************************************************************************)
(* create_build, as far as it bears on the verdict.                        *)
(***************************************************************************)
\* A request comes when none is in progress.  A scan of a source or of a directory begins
\* like a build.
Begin(q) ==
    /\ pc = "idle"
    /\ q.kind \in {"build", "source", "filesystem"}
    /\ request' = q
    /\ tree' = q.tree
    /\ StartWalk(q.tree)
    /\ pc' = "walk"
    /\ UNCHANGED <<rootfs, source, report, verdict, lookupVars, edits>>

\* create_scan, for an image archive.
BeginScan(q) ==
    /\ pc = "idle"
    /\ q.kind = "image"
    /\ request' = q
    /\ pc' = "unpack"
    /\ UNCHANGED <<rootfs, source, report, verdict, lookupVars, walkVars>>

Walking == pc \in {"walk", "rewalk"}

Walk ==
    /\ Walking
    /\ WalkStep(request.recipe)
    /\ UNCHANGED <<pc, request, rootfs, source, report, verdict, lookupVars, edits>>

\* The scan fails the request; nothing is recorded for it.
WalkFails ==
    /\ Walking
    /\ WalkCanFail
    /\ pc' = "done"
    /\ UNCHANGED <<request, rootfs, source, report, verdict, lookupVars, walkVars>>

VerifiesMaterials == request.kind # "filesystem"

FinishWalk ==
    /\ pc = "walk"
    /\ WalkOver
    /\ LET scanned == compare_recipe_metadata(request.recipe, scanner, VerifiesMaterials)
       IN  report' = [Report(scanned, request.recipe, {}) EXCEPT !.raced = raced]
    /\ pc' = "source"
    /\ UNCHANGED <<request, rootfs, source, verdict, lookupVars, walkVars>>

\* When the layer has been copied, the tree is walked again.
Intake ==
    /\ pc = "intake"
    /\ IF evaluate_artifact_intake_gate(request.recipe, report) = "denied"
       THEN /\ pc' = "done" /\ verdict' = "denied"
            /\ UNCHANGED <<scanner, due, visiting, raced, touched>>
       ELSE /\ pc' = "rewalk" /\ UNCHANGED verdict
            /\ StartWalk(tree)
    /\ source' = report
    /\ UNCHANGED <<request, rootfs, report, lookupVars, edits, tree>>

\* Mutant: only what the paths are is compared.
RecheckPaths ==
    /\ pc = "rewalk"
    /\ WalkOver
    /\ pc' = IF ~Incomplete /\ DOMAIN scanner.digests = DOMAIN source.filesystem
             THEN "unpack" ELSE "done"
    /\ UNCHANGED <<request, rootfs, source, report, verdict, lookupVars, walkVars>>

\* A tree that has changed since fails the request.
Recheck ==
    /\ pc = "rewalk"
    /\ WalkOver
    /\ pc' = IF ~Incomplete /\ scanner.digests = source.filesystem THEN "unpack" ELSE "done"
    /\ UNCHANGED <<request, rootfs, source, report, verdict, lookupVars, walkVars>>

\* A developer changes a file of the tree, makes one or removes one.
Edit ==
    /\ pc \in {"walk", "source", "intake", "rewalk"}
    /\ edits < MaxEdits
    /\ \E e \in request.edits : EditTree(e.path, e.node)
    /\ edits' = edits + 1
    /\ UNCHANGED <<pc, request, rootfs, source, report, verdict, lookupVars>>

Unpacked == IF request.kind = "build" THEN UnpackTar(request.tar)
            ELSE unpack_image_archive(request.image)

\* The layers the report says it is about.
Covered == IF request.kind = "build" THEN {"layer"}
           ELSE {<<l.tar, l.compression>> : l \in {request.image.layers[i] :
                                                     i \in DOMAIN request.image.layers}}

\* What cannot be unpacked fails the request; nothing is recorded for it.
UnpackFails ==
    /\ pc = "unpack"
    /\ Unpacked.failed
    /\ pc' = "done"
    /\ UNCHANGED <<request, rootfs, source, report, verdict, lookupVars, walkVars>>

Unpack ==
    /\ pc = "unpack"
    /\ ~Unpacked.failed
    /\ rootfs' = Unpacked.tree
    /\ UNCHANGED request
    /\ report' \in LayerReports(rootfs', request.recipe, Covered)
    /\ pc' = "layer"
    /\ sent' = {} /\ osv_failed' = FALSE /\ matches' = {}
    /\ UNCHANGED <<source, verdict, walkVars>>

Build ==
    [recipe_digest |-> request.recipe.digest, status |-> "succeeded", timestamped |-> TRUE,
     source_scan_id |-> 0, source_scan_digest |-> 0, artifact |-> [digest |-> "layer"]]

Assess ==
    /\ pc = "assess"
    /\ \E assessments \in AppliedTo(report.assessments) :
          report' = [report EXCEPT !.assessments = assessments]
    /\ verdict' = evaluate_gate(request.recipe, Build, report', << >>, 0)
    /\ pc' = "done"
    /\ UNCHANGED <<request, rootfs, source, lookupVars, walkVars>>

\* The request is answered.
Answer ==
    /\ pc = "done"
    /\ pc' = "idle" /\ request' = None /\ rootfs' = << >>
    /\ source' = NoReport /\ report' = NoReport
    /\ sent' = {} /\ osv_failed' = FALSE /\ matches' = {} /\ verdict' = None
    /\ tree' = << >> /\ StartWalk(<< >>) /\ edits' = 0

Next ==
    \/ pc = "idle" /\ \E q \in Requests : Begin(q) \/ BeginScan(q)
    \/ Walk \/ WalkFails \/ FinishWalk \/ Edit
    \/ LookupDisabled \/ NothingToLookUp \/ ChunkFails \/ FinishLookup
    \/ \E advisories \in SUBSET Advisories : ChunkAnswered(advisories)
    \/ Intake \/ Recheck \/ UnpackFails \/ Unpack \/ Assess \/ Answer

Spec == Init /\ [][Next]_vars

-----------------------------------------------------------------------------
(***************************************************************************)
(* Properties.                                                             *)
(***************************************************************************)
\* The entries behind the digest of the layer, or behind the diff IDs in the image's config.
Named == IF request.kind = "build" THEN request.tar ELSE FlattenSeq(request.image.diff_ids)

\* Paths no hard link among the entries has to do with, also if it is made through a symlink.
Unlinked(entries, p) ==
    \A i \in 1..Len(entries) : entries[i].kind = "link" =>
        LET path == entries[i].path
        IN  /\ ~IsPrefix(path, p)
            /\ \A j \in 1..Len(entries), n \in 1..(Len(path) - 1) :
                  entries[j].kind = "symlink" /\ entries[j].path = SubSeq(path, 1, n) =>
                      ~IsPrefix(Redirected(path, n, entries[j].content), p)

\* The files the layer should leave behind, by the reference of LayerUnpack.
LayerFiles ==
    LET merged == Merged(Named)
    IN  {[path |-> p, content |-> merged[p].content] :
            p \in {p \in DOMAIN merged : merged[p].kind = "file" /\ Unlinked(Named, p)}}

\* The files of the source inventory, but for those that changed while they were looked at.
SourceFiles ==
    {[path |-> p, content |-> source.filesystem[p].content] :
        p \in {p \in DOMAIN source.filesystem \ source.raced :
                  source.filesystem[p].kind = "file"}}

\* The tree that is scanned has at every path what the last entry says that has a say about
\* it, of the very layers the request or the image's config names: parents made on the way,
\* replaced files, whiteouts and opaque entries, within a layer and over the layers below.
UnpackedIsMerged ==
    pc = "layer" =>
        LET entries == Named
            merged == Merged(entries)
        IN  \A p \in DOMAIN rootfs \cup DOMAIN merged : Unlinked(entries, p) =>
                /\ p \in DOMAIN rootfs \cap DOMAIN merged
                /\ rootfs[p] = merged[p]

\* Findings about several files, or none.
OfComparison(f) ==
    \/ f.category = "metadata-misalignment"
    \/ f = Finding("sbom-missing-integrity", "high", <<"go.sum">>)

\* Whether a material that is not a file counts as seen depends on the file that a component
\* of several is listed for, hence on the order of the walk.
Weighty(findings) ==
    {f \in findings : ~(f.category = "metadata-misalignment" /\ f.severity = "low")}

\* A complete scan of a tree judges the very bytes its filesystem digest covers, although files
\* are edited, replaced and removed under its eyes: another scan of exactly these files comes
\* to the same inventories, and to the same findings.  Files excepted that were long before or
\* after they changed, whose beginning is read apart from the rest; if there are none, what
\* relates the files to each other and to the recipe is the same, too.
ScanIsOfItsDigest ==
    pc = "source" /\ ~Incomplete =>
        LET settled == DOMAIN report.filesystem \ report.raced
            again == InspectFiles(request.recipe, report.filesystem, settled)
            compared == compare_recipe_metadata(request.recipe, again, VerifiesMaterials)
            Settled(entries) == {e \in entries : e.evidence \in settled}
            Keys(components) == {KeyOf(c) : c \in components}
            found == {f \in report.findings : f.category # "known-vulnerability"}
        IN  /\ Keys(Settled(report.components)) \subseteq Keys(again.components)
            /\ Keys(again.components) \subseteq Keys(report.components)
            /\ Settled(report.crypto) = again.crypto
            /\ again.findings \subseteq found
            /\ \A f \in Settled(found) \ again.findings : OfComparison(f)
            /\ report.raced = {} => Weighty(found) = Weighty(compared.findings)

\* When the layer is taken for the scanned source's, every file of the tree is still what the
\* intake has judged, unless it was edited after the second walk had begun: an edit while the
\* lookup or the copying goes on is not missed.
SourceIsAsScanned ==
    pc \in {"unpack", "layer", "assess"} /\ request.kind = "build" =>
        \A p \in FilesOf(tree) \cup DOMAIN source.filesystem : p \notin touched =>
            /\ p \in FilesOf(tree) \cap DOMAIN source.filesystem
            /\ source.filesystem[p] = Digested(tree[p].kind, tree[p].content)

IsText(c) == ~c.long /\ ~c.binary

\* When a lookup is asked for, a layer is allowed only after OSV has answered for each
\* component of each file it leaves behind, and without a match; neither a failing chunk, nor
\* the limits, nor an unmapped neighbour lets one slip through.
AllowedWasLookedUp ==
    verdict = "allowed" /\ (request.mode = "required" \/ request.recipe.require_osv) =>
        \A file \in LayerFiles : IsText(file.content) =>
            \A c \in Parsed(file.path, file.content).components : ecosystem(c.kind) # None =>
                \E m \in matches : KeyOf(m[1]) = c /\ m[2] = {}

\* Fulcr concludes that something is fixed only if the lookup of the layer was answered in
\* full, no component of that name was reported, and the layer has another version than the
\* source.  Between versions written with an operator, as manifests have them, and versions
\* without one it is the texts that differ.
FixedIsProven ==
    pc = "done" /\ verdict # None =>
        \A a \in report.assessments : a.status = "fixed" =>
            /\ \A c \in Queries : \E m \in matches : m[1] = c
            /\ \A m \in matches : m[1].name = a.component => a.vulnerability \notin m[2]
            /\ \E s \in source.components, c \in report.components :
                  /\ s.name = a.component /\ c.name = a.component
                  /\ ecosystem(s.kind) = ecosystem(c.kind) /\ c.evidence = a.evidence
                  /\ s.version # c.version

\* The layer answers for a match of the source lookup: its own lookup was complete and did not
\* report the vulnerability for that name, and it has the component in another version.
AnsweredInLayer(a) ==
    /\ \A c \in Queries : \E m \in matches : m[1] = c
    /\ \A m \in matches : m[1].name = a.component => a.vulnerability \notin m[2]
    /\ \E s \in source.components, c \in report.components :
          /\ s.name = a.component /\ s.evidence = a.evidence /\ c.name = a.component
          /\ ecosystem(s.kind) = ecosystem(c.kind)
          /\ s.version # c.version

\* Although the intake ignores them, the matches of the source lookup are followed up by
\* vulnerability and component name: in an allowed layer there is for each such pair a match
\* that the layer answers for.  One match per pair is all: a component of the same name, of
\* another ecosystem or in another file, may be gone without an answer, where README.md:113
\* wants a denial.
SubjectsAnswered ==
    verdict = "allowed" =>
        \A a \in source.assessments :
            \E b \in source.assessments : SameSubject(a, b) /\ AnsweredInLayer(b)

\* A version or a source that is asked for, rather than one that was chosen.  In
\* pnpm-lock.yaml the importers ask, and have no hash.
Asked(name, d) ==
    \/ name \in {"Cargo.toml", "package.json", "requirements.txt", "go.mod", "packages.lock.json"}
    \/ name = "pom.xml" /\ d.from # "self"
    \/ name = "pnpm-lock.yaml" /\ d.hashed = None

\* What a manifest or lock file must not say of a dependency, where the scanner looks.  A caret
\* requirement of cargo and a bare version in requirements.txt are no pins.  In a Cargo.lock
\* only the packages from the registry need a checksum, and if it is not well-formed, all those
\* with a version; where the others come from is not asked.  A range in a line with == and a
\* URL of a scheme the scanner does not know are not held against it, where README.md:100 wants
\* what is not pinned and direct sources to be flagged.
Loose(file, d) ==
    LET name == Last(file.path)
        loose == \/ d.version.form = "range"
                 \/ d.version.form = "floating" /\ name # "packages.lock.json"
                 \/ d.version.form = "plain" /\ name \in {"Cargo.toml", "requirements.txt"}
    IN  /\ d.from # "unread"
        /\ \/ Asked(name, d) /\ d.version # None /\ loose
           \/ /\ d.hashed = FALSE
              /\ \/ name \in {"package-lock.json", "pnpm-lock.yaml", "requirements.txt", "go.sum",
                              "packages.lock.json"}
                 \/ /\ name = "Cargo.lock"
                    /\ IF file.content.parses THEN d.from = "registry" ELSE d.version # None
           \/ /\ d.from \in {"remote", "local"}
              /\ \/ name \in {"Cargo.toml", "package-lock.json", "package.json", "requirements.txt"}
                 \/ name = "pnpm-lock.yaml" /\ d.hashed = None /\ d.version # None
           \/ name = "package-lock.json" /\ d.script

MarksAgainst(name) ==
    {"key-block"} \cup
    CASE name = "package.json" -> {"lifecycle-script", "publish-script"}
      [] name = "go.mod" -> {"replace"}
      [] name = "packages.lock.json" -> {"no-targets"}
      [] OTHER -> {}

\* Nothing that the scanner knows of speaks against the file.
Clean(file) ==
    LET c == file.content
    IN  /\ c.long => ~c.exec /\ ~c.binary /\ ~is_known_metadata_file(file.path)
        /\ ~c.long /\ c.binary => ~c.exec
        /\ IsText(c) =>
              /\ c.marks \cap MarksAgainst(Last(file.path)) = {}
              /\ "key-header" \in c.marks => is_documentation_file(file.path)
              /\ ~IsKeyFile(file.path)
              /\ c.exec => "remote-execution" \notin c.marks
              /\ Last(file.path) \in Manifests => \A d \in c.deps : ~Loose(file, d)

\* Some go.sum of the tree has the checksum of a required module.
Summed(t, d) ==
    \E p \in DOMAIN t :
        /\ t[p].kind = "file" /\ Last(p) = "go.sum"
        /\ \E sum \in t[p].content.deps :
              sum.name = d.name /\ sum.version = d.version /\ sum.hashed

CleanAmong(t, file) ==
    /\ Clean(file)
    /\ IsText(file.content) /\ Last(file.path) = "go.mod" =>
           \A d \in file.content.deps : Summed(t, d)

\* A build is allowed only if every file of its source and of its layer is clean, and a
\* module required by one has its checksum in some other.  Of what the scanner knows to hold
\* against a dependency (a version that is not pinned, by the signs it goes by; no hash; a
\* source with a prefix it knows; an install script), and of keys and binaries that can be
\* run, nothing is hidden by a limit, by the order of the files or by an unreadable neighbour.
AllowedIsClean ==
    verdict = "allowed" =>
        /\ \A file \in SourceFiles : CleanAmong(source.filesystem, file)
        /\ \A file \in LayerFiles : CleanAmong(rootfs, file)

\* A declared file is in the inventory with the declared bytes.  If it has namesakes in other
\* directories, the first of them by the text of its path has to be the one.
MaterialsFit(recipe, filesystem) ==
    \A m \in {m \in recipe.materials : material_is_file(m)} :
        \E i \in DOMAIN PathOrder :
            /\ PathOrder[i] \in DOMAIN filesystem
            /\ filesystem[PathOrder[i]].kind = "file"
            /\ SameBytes(filesystem[PathOrder[i]].content, m.content)
            /\ IsSuffix(m.name, PathOrder[i])
            /\ \A j \in 1..(i - 1) : IsSuffix(m.name, PathOrder[j]) =>
                   PathOrder[j] \notin DOMAIN filesystem

\* The files among the materials of an allowed build are those of its source, whether the
\* declared one or a namesake was changed, is missing or came to be first.
MaterialsAreTheirs == verdict = "allowed" => MaterialsFit(request.recipe, source.filesystem)
=============================================================================
