------------------------ MODULE Materialization_proofs ------------------------
(***************************************************************************)
(* Proofs about Materialization, for every set of recipes, builders,       *)
(* pullers, layers and source trees: the evidence, and what becomes of it  *)
(* over time.  The store and the handlers implement EvidenceLedger: records*)
(* are only ever appended, under ids of their own, with their scans on     *)
(* file; a scan is withdrawn only while no record cites it; bytes are      *)
(* streamed only if a record vouches for them.  A denial stays a denial    *)
(* for the record it was written for, and the record a blob request judges *)
(* is never older than the one it serves.                                  *)
(***************************************************************************)
EXTENDS Materialization, WellFoundedInduction, TLAPS

-----------------------------------------------------------------------------
(***************************************************************************)
(* The inductive invariant.  TypeOK and EvidenceBound are not inductive:   *)
(* what a handler writes depends on what it has gathered by the time it    *)
(* reaches a given step.                                                   *)
(***************************************************************************)

\* The handler has a scan of the retained layer that no record refers to yet.
Pending(b) == job[b].pc \in {"decide", "save_scan", "commit"}

\* What a create_build handler holds at each of its steps.
Gathered(b) ==
    /\ job[b].pc # "idle" => job[b].recipe \in Recipes
    /\ job[b].pc \notin {"idle", "scan"} =>
          /\ job[b].source \in scans
          /\ job[b].source.mode = "source"
          /\ job[b].source.recipe_digest = job[b].recipe
    /\ job[b].pc \in {"publish", "existing"} => job[b].bytes \in Layers
    /\ job[b].pc \in {"recheck", "inspect", "decide", "save_scan", "commit"} =>
          job[b].artifact \in ArtifactRef
    /\ job[b].pc \in {"inspect", "decide", "save_scan", "commit"} =>
          /\ job[b].artifact.retained
          /\ job[b].artifact.digest = job[b].source.declared_artifact_digest
    /\ job[b].pc \in {"idle", "scan", "intake", "copy", "digest", "publish", "existing"} =>
          job[b].artifact = None
    /\ job[b].pc = "record" /\ job[b].artifact # None =>
          /\ ~job[b].artifact.retained
          /\ job[b].artifact.digest = job[b].source.declared_artifact_digest
    /\ Pending(b) =>
          /\ job[b].scan \in Scan
          /\ job[b].scan.mode = "filesystem"
          /\ job[b].scan.recipe_digest = job[b].recipe
          /\ job[b].scan.layers = {job[b].artifact.digest}
          /\ job[b].scan.filesystem_digest = [layer |-> job[b].artifact.digest]
    /\ job[b].pc \in {"save_scan", "commit"} => job[b].decision \in Verdict
    /\ job[b].pc = "commit" => job[b].scan \in scans

\* From its publication to its inspection a retained file holds the bytes of its name, or
\* has been swept; only a power loss tears it, and that ends the handler too.
FileIntact(b) ==
    /\ job[b].pc \in {"recheck", "inspect"}
    /\ job[b].artifact.retained
    => cache[job[b].artifact.digest] \in {None, job[b].artifact.digest}

\* Scan identifiers are never used twice.
FreshIds ==
    /\ \A s \in scans : s.id < clock
    /\ \A s, t \in scans : s.id = t.id => s = t
    /\ \A b \in Builders : Pending(b) => job[b].scan.id < clock
    /\ \A b \in Builders : Pending(b) =>
          \A s \in scans : s.id = job[b].scan.id => s = job[b].scan
    /\ \A b, c \in Builders : Pending(b) /\ Pending(c) /\ job[b].scan.id = job[c].scan.id
                              => b = c
    /\ \A r \in builds : r.artifact_scan_id # None => r.artifact_scan_id < clock
    /\ \A b \in Builders : Pending(b) =>
          \A r \in builds : r.artifact_scan_id # job[b].scan.id

\* A record cites a source scan and, if it succeeded with a retained layer, an inspection.
RecordBacked(r) ==
    /\ r.status = "succeeded" =>
          /\ r.artifact # None
          /\ r.source_scan_digest \in scans
          /\ r.source_scan_digest.mode = "source"
          /\ r.source_scan_digest.id = r.source_scan_id
          /\ r.source_scan_digest.declared_artifact_digest = r.artifact.digest
    /\ r.status = "succeeded" /\ r.artifact # None /\ r.artifact.retained =>
          /\ r.policy_decision # None
          /\ \E s \in scans :
                /\ s.id = r.artifact_scan_id
                /\ s.recipe_digest = r.recipe_digest
                /\ s.layers = {r.artifact.digest}
                /\ s.filesystem_digest = [layer |-> r.artifact.digest]

IInv ==
    /\ TypeOK
    /\ \A b \in Builders : Gathered(b) /\ FileIntact(b)
    /\ FreshIds
    /\ \A r \in builds : RecordBacked(r)

\* The request has found its layer and is on the way to streaming it.
Blob(p) == pull[p].kind = "blob" /\ pull[p].pc \in {"gate", "judge", "open", "served"}

\* What a reader holds: a selected layer is one of a stored record, its file was intact
\* when it was verified and can only disappear since.
Selected(p) ==
    /\ pull[p].pc = "verify" \/ Blob(p) =>
          /\ pull[p].layer \in builds
          /\ pull[p].layer.recipe_digest = pull[p].recipe
          /\ pull[p].layer.status = "succeeded"
          /\ pull[p].layer.artifact \in ArtifactRef
          /\ pull[p].layer.artifact.retained
    /\ Blob(p) => /\ pull[p].want \in Layers
                  /\ pull[p].layer.artifact.digest = pull[p].want
    /\ Blob(p) /\ pull[p].pc # "served" => cache[pull[p].want] \in {None, pull[p].want}
    /\ Blob(p) /\ pull[p].pc = "served" => pull[p].bytes = pull[p].want
    /\ pull[p].pc = "open" => pull[p].kind = "blob"

PullInv == \A p \in Pullers : Selected(p)

-----------------------------------------------------------------------------
(***************************************************************************)
(* Types of what the handlers compute.                                     *)
(***************************************************************************)

\* A verdict is one of the two outcomes.
LEMMA VerdictType ==
    ASSUME NEW recipe, NEW build, NEW scan, NEW statements, NEW now
    PROVE  evaluate_gate(recipe, build, scan, statements, now) \in Verdict
BY DEF evaluate_gate, Verdict

\* The source scan of a stored recipe is a scan report.
LEMMA SourceScanType ==
    ASSUME TypeOK, NEW r \in Recipes
    PROVE  SourceScan(r) \in Scan
<1>1. tree[r] \in Tree
  BY DEF TypeOK
<1>2. /\ tree[r].src \in Sources
      /\ tree[r].layer \in Layers \cup {None}
  BY <1>1 DEF Tree
<1>3. SourceFindings[tree[r].src] \in SUBSET Findings
  BY <1>2 DEF Findings
<1>4. clock \in Nat
  BY DEF TypeOK
<1> QED
  BY <1>1, <1>2, <1>3, <1>4 DEF SourceScan, Scan

\* The inspection of an intact cached layer is a scan report.
LEMMA LayerScanType ==
    ASSUME TypeOK, NEW b \in Builders, NEW a \in Assessments,
           job[b].recipe \in Recipes, job[b].artifact.digest \in Layers,
           cache[job[b].artifact.digest] \in Layers
    PROVE  LayerScan(b, a) \in Scan
<1>1. LayerFindings[cache[job[b].artifact.digest]] \in SUBSET Findings
  BY DEF Findings
<1>2. clock \in Nat
  BY DEF TypeOK
<1>3. [layer |-> cache[job[b].artifact.digest]] \in Tree \cup Rootfs
  BY DEF Rootfs
<1> QED
  BY <1>1, <1>2, <1>3 DEF LayerScan, Scan

\* What a handler records is a build record.
LEMMA RecordType ==
    ASSUME NEW j, j.recipe \in Recipes, j.source \in Scan,
           j.artifact \in ArtifactRef \cup {None}, j.decision \in Verdict \cup {None},
           NEW id \in Nat, NEW status \in {"planned", "succeeded", "failed"},
           NEW scan_id \in Nat \cup {None}
    PROVE  Record(j, id, status, scan_id) \in BuildRecord
<1>1. j.source.id \in Nat
  BY DEF Scan
<1> QED
  BY <1>1 DEF Record, BuildRecord

\* The latest evidence is a stored record, or there is none.
LEMMA EvidenceStored ==
    ASSUME NEW r
    PROVE  latest_build_evidence(r) \in builds \cup {None}
BY DEF latest_build_evidence

-----------------------------------------------------------------------------
(***************************************************************************)
(* Frame: a step that touches neither the scans, the records nor the cache *)
(* and moves one handler preserves the invariant if the handler's new      *)
(* state has what it needs.                                                *)
(***************************************************************************)
LEMMA HandlerStep ==
    ASSUME IInv, NEW b \in Builders, NEW j \in Job,
           job' = [job EXCEPT ![b] = j],
           clock' \in Nat, clock' >= clock, accepted' \in Nat,
           evidence' \in Builders \cup {None},
           UNCHANGED <<tree, cache, scans, builds, vex, expired, pull>>,
           Gathered(b)', FileIntact(b)',
           Pending(b)' => \/ Pending(b) /\ j.scan = job[b].scan
                          \/ j.scan.id = clock /\ clock' > clock
    PROVE  IInv'
<1>1. TypeOK'
  BY DEF IInv, TypeOK
<1>2. \A c \in Builders : c # b => job'[c] = job[c]
  BY DEF IInv, TypeOK
<1>3. job'[b] = j
  BY DEF IInv, TypeOK
<1>4. \A c \in Builders : Gathered(c)' /\ FileIntact(c)'
  <2> TAKE c \in Builders
  <2>1. CASE c = b
    BY <2>1
  <2>2. CASE c # b
    BY <1>2, <2>2 DEF IInv, Gathered, FileIntact, Pending
  <2> QED
    BY <2>1, <2>2
<1>5. FreshIds'
  <2>1. /\ clock \in Nat
        /\ \A s \in scans : s.id \in Nat
        /\ \A r \in builds : r.artifact_scan_id \in Nat \cup {None}
    BY DEF IInv, TypeOK, Scan, BuildRecord
  <2>2. \A c \in Builders : Pending(c)' =>
           \/ Pending(c) /\ job'[c].scan = job[c].scan
           \/ c = b /\ job'[c].scan.id = clock /\ clock' > clock
    BY <1>2, <1>3 DEF Pending
  <2>3. \A c \in Builders : Pending(c) => job[c].scan.id \in Nat /\ job[c].scan.id < clock
    BY DEF IInv, FreshIds, Gathered, Scan
  <2>4. \A s \in scans' : s.id < clock'
    BY <2>1 DEF IInv, FreshIds
  <2>5. \A s, t \in scans' : s.id = t.id => s = t
    BY DEF IInv, FreshIds
  <2>6. \A c \in Builders : Pending(c)' => job'[c].scan.id < clock'
    BY <2>1, <2>2, <2>3
  <2>7. \A c \in Builders : Pending(c)' =>
           \A s \in scans' : s.id = job'[c].scan.id => s = job'[c].scan
    <3> SUFFICES ASSUME NEW c \in Builders, Pending(c)', NEW s \in scans,
                        s.id = job'[c].scan.id
                 PROVE  s = job'[c].scan
      OBVIOUS
    <3>1. s.id # clock
      BY <2>1 DEF IInv, FreshIds
    <3> QED
      BY <2>2, <3>1 DEF IInv, FreshIds
  <2>8. \A c, d \in Builders :
           Pending(c)' /\ Pending(d)' /\ job'[c].scan.id = job'[d].scan.id => c = d
    BY <2>1, <2>2, <2>3 DEF IInv, FreshIds
  <2>9. \A r \in builds' : r.artifact_scan_id # None => r.artifact_scan_id < clock'
    BY <2>1 DEF IInv, FreshIds
  <2>10. \A c \in Builders : Pending(c)' =>
            \A r \in builds' : r.artifact_scan_id # job'[c].scan.id
    <3> SUFFICES ASSUME NEW c \in Builders, Pending(c)', NEW r \in builds
                 PROVE  r.artifact_scan_id # job'[c].scan.id
      OBVIOUS
    <3>1. r.artifact_scan_id # clock
      BY <2>1, NoneAssumption DEF IInv, FreshIds
    <3> QED
      BY <2>2, <3>1 DEF IInv, FreshIds
  <2> QED
    BY <2>4, <2>5, <2>6, <2>7, <2>8, <2>9, <2>10 DEF FreshIds
<1>6. \A r \in builds' : RecordBacked(r)'
  BY DEF IInv, RecordBacked
<1> QED
  BY <1>1, <1>4, <1>5, <1>6 DEF IInv
-----------------------------------------------------------------------------
(***************************************************************************)
(* One lemma per action.  First the steps that move one handler only.      *)
(***************************************************************************)
LEMMA IdleJobType == IdleJob \in Job
BY DEF IdleJob, Job

\* A handler that ends, in whatever way, leaves nothing to account for.
LEMMA AbandonStep ==
    ASSUME IInv, NEW b \in Builders, job' = Abandon(b),
           evidence' \in Builders \cup {None},
           UNCHANGED <<tree, cache, scans, builds, vex, expired, clock, accepted, pull>>
    PROVE  IInv'
<1>1. job'[b] = IdleJob
  BY DEF Abandon, IInv, TypeOK
<1>2. Gathered(b)' /\ FileIntact(b)' /\ ~Pending(b)'
  BY <1>1 DEF Gathered, FileIntact, Pending, IdleJob
<1>3. clock' \in Nat /\ clock' >= clock /\ accepted' \in Nat
  BY DEF IInv, TypeOK
<1>4. job' = [job EXCEPT ![b] = IdleJob]
  BY DEF Abandon
<1> QED
  BY <1>2, <1>3, <1>4, IdleJobType, HandlerStep

\* A step that only moves on to a later step, with nothing new to hold.
LEMMA GotoStep ==
    ASSUME IInv, NEW b \in Builders, NEW to, job' = Goto(b, to),
           UNCHANGED <<tree, cache, scans, builds, vex, expired, clock, accepted, evidence, pull>>,
           \/ job[b].pc = "copy" /\ to \in {"record", "digest"}
           \/ job[b].pc = "publish" /\ to = "existing"
           \/ /\ job[b].pc = "recheck"
              /\ job[b].artifact.digest = job[b].source.declared_artifact_digest
              /\ to = IF job[b].artifact.retained THEN "inspect" ELSE "record"
    PROVE  IInv'
<1> DEFINE j == [job[b] EXCEPT !.pc = to]
<1>1. job[b] \in Job
  BY DEF IInv, TypeOK
<1>2. j \in Job
  BY <1>1 DEF Job
<1>3. job' = [job EXCEPT ![b] = j] /\ job'[b] = j
  BY DEF Goto, IInv, TypeOK
<1>4. /\ j.pc = to /\ j.recipe = job[b].recipe /\ j.source = job[b].source
      /\ j.bytes = job[b].bytes /\ j.artifact = job[b].artifact
  BY <1>1 DEF Job
<1>5. Gathered(b)
  BY DEF IInv
<1>6. job[b].artifact.retained => FileIntact(b)
  BY DEF IInv
<1> HIDE DEF j
<1>7. Gathered(b)'
  BY <1>3, <1>4, <1>5 DEF Gathered, Pending
<1>8. FileIntact(b)' /\ ~Pending(b)'
  BY <1>3, <1>4, <1>6 DEF FileIntact, Pending
<1>9. /\ clock' \in Nat /\ clock' >= clock /\ accepted' \in Nat
      /\ evidence' \in Builders \cup {None}
  BY DEF IInv, TypeOK
<1> QED
  BY <1>2, <1>3, <1>7, <1>8, <1>9, HandlerStep

LEMMA StartBuildStep ==
    ASSUME IInv, NEW b \in Builders, NEW r \in Recipes, NEW c \in BOOLEAN, StartBuild(b, r, c)
    PROVE  IInv'
<1> DEFINE j == [IdleJob EXCEPT !.pc = "scan", !.recipe = r, !.cache_artifact = c]
<1>1. j \in Job
  BY DEF Job, IdleJob
<1>2. job' = [job EXCEPT ![b] = j] /\ job'[b] = j
  BY DEF StartBuild, IInv, TypeOK
<1>3. j.pc = "scan" /\ j.recipe = r /\ j.artifact = None
  BY DEF IdleJob
<1> HIDE DEF j
<1>4. Gathered(b)' /\ FileIntact(b)' /\ ~Pending(b)'
  BY <1>2, <1>3 DEF Gathered, FileIntact, Pending
<1>5. /\ clock' \in Nat /\ clock' >= clock /\ accepted' \in Nat
      /\ evidence' \in Builders \cup {None}
      /\ UNCHANGED <<tree, cache, scans, builds, vex, expired, pull>>
  BY DEF StartBuild, IInv, TypeOK
<1> QED
  BY <1>1, <1>2, <1>4, <1>5, HandlerStep

LEMMA StartImportStep ==
    ASSUME IInv, NEW b \in Builders, StartImport(b)
    PROVE  IInv'
<1> DEFINE j == [job[b] EXCEPT !.pc = "copy", !.started = clock]
<1>1. job[b] \in Job /\ clock \in Nat /\ accepted \in Nat /\ evidence \in Builders \cup {None}
  BY DEF IInv, TypeOK
<1>2. j \in Job
  BY <1>1 DEF Job
<1>3. job' = [job EXCEPT ![b] = j] /\ job'[b] = j
  BY <1>1 DEF StartImport, IInv, TypeOK
<1>4. /\ j.pc = "copy" /\ j.recipe = job[b].recipe /\ j.source = job[b].source
      /\ j.artifact = job[b].artifact
  BY <1>1 DEF Job
<1>5. Gathered(b) /\ job[b].pc = "intake"
  BY DEF IInv, StartImport, Step
<1> HIDE DEF j
<1>6. Gathered(b)' /\ FileIntact(b)' /\ ~Pending(b)'
  BY <1>3, <1>4, <1>5 DEF Gathered, FileIntact, Pending, StartImport
<1>7. /\ clock' \in Nat /\ clock' >= clock /\ accepted' \in Nat
      /\ evidence' \in Builders \cup {None}
      /\ UNCHANGED <<tree, cache, scans, builds, vex, expired, pull>>
  BY <1>1 DEF StartImport, Stamp
<1> QED
  BY <1>2, <1>3, <1>6, <1>7, HandlerStep
LEMMA CopyLayerStep ==
    ASSUME IInv, NEW b \in Builders, CopyLayer(b)
    PROVE  IInv'
<1> DEFINE j == [job[b] EXCEPT !.pc = "publish", !.bytes = DeclaredLayer(b)]
<1>1. job[b] \in Job /\ clock \in Nat /\ accepted \in Nat /\ evidence \in Builders \cup {None}
  BY DEF IInv, TypeOK
<1>2. DeclaredLayer(b) \in Layers
  BY MaterializationAssumption DEF CopyLayer
<1>3. j \in Job
  BY <1>1, <1>2 DEF Job
<1>4. job' = [job EXCEPT ![b] = j] /\ job'[b] = j
  BY <1>1 DEF CopyLayer, IInv, TypeOK
<1>5. /\ j.pc = "publish" /\ j.recipe = job[b].recipe /\ j.source = job[b].source
      /\ j.artifact = job[b].artifact /\ j.bytes = DeclaredLayer(b)
  BY <1>1 DEF Job
<1>6. Gathered(b) /\ job[b].pc = "copy"
  BY DEF IInv, CopyLayer, Step
<1> HIDE DEF j
<1>7. Gathered(b)' /\ FileIntact(b)' /\ ~Pending(b)'
  BY <1>2, <1>4, <1>5, <1>6 DEF Gathered, FileIntact, Pending, CopyLayer
<1>8. /\ clock' \in Nat /\ clock' >= clock /\ accepted' \in Nat
      /\ evidence' \in Builders \cup {None}
      /\ UNCHANGED <<tree, cache, scans, builds, vex, expired, pull>>
  BY <1>1 DEF CopyLayer
<1> QED
  BY <1>3, <1>4, <1>7, <1>8, HandlerStep

\* A handler that has its artifact goes on to the comparison with the source scan.
LEMMA ImportedStep ==
    ASSUME IInv, NEW b \in Builders, NEW ref \in ArtifactRef,
           job[b].pc \in {"digest", "existing"},
           job' = [job EXCEPT ![b].pc = "recheck", ![b].artifact = ref],
           ref.retained => cache[ref.digest] = ref.digest,
           UNCHANGED <<tree, cache, scans, builds, vex, expired, clock, accepted, evidence, pull>>
    PROVE  IInv'
<1> DEFINE j == [job[b] EXCEPT !.pc = "recheck", !.artifact = ref]
<1>1. job[b] \in Job /\ clock \in Nat /\ accepted \in Nat /\ evidence \in Builders \cup {None}
  BY DEF IInv, TypeOK
<1>2. j \in Job
  BY <1>1 DEF Job
<1>3. job' = [job EXCEPT ![b] = j] /\ job'[b] = j
  BY <1>1 DEF IInv, TypeOK
<1>4. /\ j.pc = "recheck" /\ j.recipe = job[b].recipe /\ j.source = job[b].source
      /\ j.artifact = ref
  BY <1>1 DEF Job
<1>5. Gathered(b)
  BY DEF IInv
<1> HIDE DEF j
<1>6. Gathered(b)' /\ FileIntact(b)' /\ ~Pending(b)'
  BY <1>3, <1>4, <1>5 DEF Gathered, FileIntact, Pending
<1>7. /\ clock' \in Nat /\ clock' >= clock /\ accepted' \in Nat
      /\ evidence' \in Builders \cup {None}
  BY <1>1
<1> QED
  BY <1>2, <1>3, <1>6, <1>7, HandlerStep

LEMMA DigestInPlaceStep ==
    ASSUME IInv, NEW b \in Builders, DigestInPlace(b)
    PROVE  IInv'
<1> DEFINE ref == [digest |-> DeclaredLayer(b), retained |-> FALSE, expires |-> FALSE]
<1>1. CASE DeclaredLayer(b) = None
  BY <1>1, AbandonStep DEF DigestInPlace, IInv, TypeOK
<1>2. CASE DeclaredLayer(b) # None
  <2>1. job[b].recipe \in Recipes
    BY DEF IInv, Gathered, DigestInPlace, Step
  <2>2. DeclaredLayer(b) \in Layers
    BY <1>2, <2>1 DEF DeclaredLayer, IInv, TypeOK, Tree
  <2>3. ref \in ArtifactRef /\ ~ref.retained
    BY <2>2 DEF ArtifactRef
  <2>4. job' = [job EXCEPT ![b].pc = "recheck", ![b].artifact = ref]
    BY <1>2 DEF DigestInPlace
  <2> HIDE DEF ref
  <2> QED
    BY <2>3, <2>4, ImportedStep DEF DigestInPlace, Step
<1> QED
  BY <1>1, <1>2

LEMMA PublishedRefType ==
    ASSUME IInv, NEW b \in Builders, job[b].pc \in {"publish", "existing"}
    PROVE  /\ PublishedRef(b) \in ArtifactRef
           /\ PublishedRef(b).digest = job[b].bytes /\ PublishedRef(b).retained
<1>1. job[b].recipe \in Recipes /\ job[b].bytes \in Layers
  BY DEF IInv, Gathered
<1>2. Policy[job[b].recipe].expiring \in BOOLEAN
  BY <1>1, MaterializationAssumption
<1> QED
  BY <1>1, <1>2 DEF PublishedRef, ArtifactRef

LEMMA AdoptExistingStep ==
    ASSUME IInv, NEW b \in Builders, AdoptExisting(b)
    PROVE  IInv'
<1>1. CASE validate_existing_cached_layer(job[b].bytes)
  <2>1. job[b].pc = "existing" /\ cache[job[b].bytes] = job[b].bytes
    BY <1>1 DEF AdoptExisting, Step, validate_existing_cached_layer
  <2>2. job' = [job EXCEPT ![b].pc = "recheck", ![b].artifact = PublishedRef(b)]
    BY <1>1 DEF AdoptExisting
  <2> QED
    BY <2>1, <2>2, PublishedRefType, ImportedStep DEF AdoptExisting
<1>2. CASE ~validate_existing_cached_layer(job[b].bytes)
  BY <1>2, AbandonStep DEF AdoptExisting, IInv, TypeOK
<1> QED
  BY <1>1, <1>2

LEMMA RecheckStep ==
    ASSUME IInv, NEW b \in Builders, Recheck(b)
    PROVE  IInv'
<1>1. CASE SourceUnchanged(b)
  BY <1>1, GotoStep DEF Recheck, Step, SourceUnchanged
<1>2. CASE ~SourceUnchanged(b)
  BY <1>2, AbandonStep DEF Recheck, IInv, TypeOK
<1> QED
  BY <1>1, <1>2

LEMMA InspectStep ==
    ASSUME IInv, NEW b \in Builders, Inspect(b)
    PROVE  IInv'
<1>1. PICK a \in Assessments :
        job' = [job EXCEPT ![b].pc = "decide", ![b].scan = LayerScan(b, a)]
  BY DEF Inspect
<1> DEFINE digest == job[b].artifact.digest
           j == [job[b] EXCEPT !.pc = "decide", !.scan = LayerScan(b, a)]
<1>2. job[b] \in Job /\ clock \in Nat /\ accepted \in Nat /\ evidence \in Builders \cup {None}
  BY DEF IInv, TypeOK
<1>3. Gathered(b) /\ FileIntact(b) /\ job[b].pc = "inspect"
  BY DEF IInv, Inspect, Step
<1>4. /\ job[b].recipe \in Recipes /\ job[b].artifact \in ArtifactRef
      /\ job[b].artifact.retained /\ digest \in Layers
  BY <1>3 DEF Gathered, ArtifactRef
<1>5. cache[digest] = digest
  BY <1>3, <1>4, NoneAssumption DEF FileIntact, Inspect
<1>6. LayerScan(b, a) \in Scan
  BY <1>4, <1>5, LayerScanType DEF IInv
<1>7. /\ LayerScan(b, a).id = clock
      /\ LayerScan(b, a).mode = "filesystem"
      /\ LayerScan(b, a).recipe_digest = job[b].recipe
      /\ LayerScan(b, a).layers = {digest}
      /\ LayerScan(b, a).filesystem_digest = [layer |-> digest]
  BY <1>5 DEF LayerScan
<1>8. j \in Job
  BY <1>2, <1>6 DEF Job
<1>9. job' = [job EXCEPT ![b] = j] /\ job'[b] = j
  BY <1>1, <1>2 DEF IInv, TypeOK
<1>10. /\ j.pc = "decide" /\ j.recipe = job[b].recipe /\ j.source = job[b].source
       /\ j.artifact = job[b].artifact /\ j.scan = LayerScan(b, a)
  BY <1>2 DEF Job
<1> HIDE DEF j
<1>11. Gathered(b)'
  <2>1. /\ j.scan \in Scan /\ j.scan.mode = "filesystem"
        /\ j.scan.recipe_digest = j.recipe
        /\ j.scan.layers = {j.artifact.digest}
        /\ j.scan.filesystem_digest = [layer |-> j.artifact.digest]
    BY <1>6, <1>7, <1>10
  <2>2. /\ j.recipe \in Recipes /\ j.artifact \in ArtifactRef /\ j.artifact.retained
        /\ j.source \in scans /\ j.source.mode = "source"
        /\ j.source.recipe_digest = j.recipe
        /\ j.artifact.digest = j.source.declared_artifact_digest
    BY <1>3, <1>4, <1>10 DEF Gathered
  <2>3. scans' = scans
    BY DEF Inspect
  <2> QED
    BY <1>9, <1>10, <2>1, <2>2, <2>3 DEF Gathered, Pending
<1>12. FileIntact(b)'
  BY <1>9, <1>10 DEF FileIntact
<1>13. /\ clock' \in Nat /\ clock' >= clock /\ clock' > clock /\ accepted' \in Nat
       /\ evidence' \in Builders \cup {None}
       /\ UNCHANGED <<tree, cache, scans, builds, vex, expired, pull>>
  BY <1>2 DEF Inspect, Stamp
<1>14. j.scan.id = clock
  BY <1>7, <1>10
<1> QED
  BY <1>8, <1>9, <1>11, <1>12, <1>13, <1>14, HandlerStep

LEMMA DecideStep ==
    ASSUME IInv, NEW b \in Builders, Decide(b)
    PROVE  IInv'
<1>1. PICK v \in Verdict : job' = [job EXCEPT ![b].pc = "save_scan", ![b].decision = v]
  BY VerdictType DEF Decide
<1> DEFINE j == [job[b] EXCEPT !.pc = "save_scan", !.decision = v]
<1>2. job[b] \in Job /\ clock \in Nat /\ accepted \in Nat /\ evidence \in Builders \cup {None}
  BY DEF IInv, TypeOK
<1>3. Gathered(b) /\ job[b].pc = "decide"
  BY DEF IInv, Decide, Step
<1>4. j \in Job
  BY <1>2 DEF Job
<1>5. job' = [job EXCEPT ![b] = j] /\ job'[b] = j
  BY <1>1, <1>2 DEF IInv, TypeOK
<1>6. /\ j.pc = "save_scan" /\ j.recipe = job[b].recipe /\ j.source = job[b].source
      /\ j.artifact = job[b].artifact /\ j.scan = job[b].scan /\ j.decision = v
  BY <1>2 DEF Job
<1> HIDE DEF j
<1>7. Gathered(b)'
  BY <1>3, <1>5, <1>6 DEF Gathered, Pending, Decide
<1>8. FileIntact(b)' /\ Pending(b)
  BY <1>3, <1>5, <1>6 DEF FileIntact, Pending
<1>9. /\ clock' \in Nat /\ clock' >= clock /\ accepted' \in Nat
      /\ evidence' \in Builders \cup {None}
      /\ UNCHANGED <<tree, cache, scans, builds, vex, expired, pull>>
  BY <1>2 DEF Decide
<1>10. j.scan = job[b].scan
  BY <1>6
<1> QED
  BY <1>4, <1>5, <1>7, <1>8, <1>9, <1>10, HandlerStep
-----------------------------------------------------------------------------
(***************************************************************************)
(* The steps that write a build record.                                    *)
(***************************************************************************)
LEMMA AppendRecord ==
    ASSUME IInv, NEW b \in Builders, NEW rec \in BuildRecord,
           builds' = builds \cup {rec},
           job' = job \/ job' = Abandon(b),
           clock' \in Nat, clock' >= clock, accepted' \in Nat,
           evidence' \in Builders \cup {None},
           UNCHANGED <<tree, cache, scans, vex, expired, pull>>,
           RecordBacked(rec),
           \/ rec.artifact_scan_id = None
           \/ /\ job[b].pc = "commit" /\ job' = Abandon(b)
              /\ rec.artifact_scan_id = job[b].scan.id
    PROVE  IInv'
<1>1. \A c \in Builders : job'[c] = job[c] \/ job'[c] = IdleJob
  BY DEF IInv, TypeOK, Abandon
<1>2. job' = Abandon(b) => job'[b] = IdleJob
  BY DEF IInv, TypeOK, Abandon
<1>3. job' \in [Builders -> Job]
  BY IdleJobType DEF IInv, TypeOK, Abandon
<1>4. TypeOK'
  BY <1>3 DEF IInv, TypeOK
<1>5. \A c \in Builders : Gathered(c)' /\ FileIntact(c)'
  <2> TAKE c \in Builders
  <2>1. CASE job'[c] = IdleJob
    BY <2>1 DEF Gathered, FileIntact, Pending, IdleJob
  <2>2. CASE job'[c] = job[c]
    BY <2>2 DEF IInv, Gathered, FileIntact, Pending
  <2> QED
    BY <1>1, <2>1, <2>2
<1>6. FreshIds'
  <2>1. /\ clock \in Nat
        /\ \A s \in scans : s.id \in Nat
        /\ \A r \in builds : r.artifact_scan_id \in Nat \cup {None}
    BY DEF IInv, TypeOK, Scan, BuildRecord
  <2>2. \A c \in Builders : Pending(c)' => Pending(c) /\ job'[c] = job[c]
    BY <1>1 DEF Pending, IdleJob
  <2>3. \A c \in Builders : Pending(c) => job[c].scan.id \in Nat /\ job[c].scan.id < clock
    BY DEF IInv, FreshIds, Gathered, Scan
  <2>4. /\ \A s \in scans' : s.id < clock'
        /\ \A s, t \in scans' : s.id = t.id => s = t
    BY <2>1 DEF IInv, FreshIds
  <2>5. /\ \A c \in Builders : Pending(c)' => job'[c].scan.id < clock'
        /\ \A c \in Builders : Pending(c)' =>
             \A s \in scans' : s.id = job'[c].scan.id => s = job'[c].scan
        /\ \A c, d \in Builders :
             Pending(c)' /\ Pending(d)' /\ job'[c].scan.id = job'[d].scan.id => c = d
    BY <2>1, <2>2, <2>3 DEF IInv, FreshIds
  <2>6. rec.artifact_scan_id # None =>
           /\ Pending(b) /\ rec.artifact_scan_id = job[b].scan.id
           /\ rec.artifact_scan_id < clock
    BY <2>3 DEF Pending
  <2>7. \A r \in builds' : r.artifact_scan_id # None => r.artifact_scan_id < clock'
    BY <2>1, <2>6 DEF IInv, FreshIds, BuildRecord
  <2>8. \A c \in Builders : Pending(c)' => rec.artifact_scan_id # job'[c].scan.id
    <3> SUFFICES ASSUME NEW c \in Builders, Pending(c)',
                        rec.artifact_scan_id = job'[c].scan.id
                 PROVE  FALSE
      OBVIOUS
    <3>1. Pending(c) /\ job'[c] = job[c] /\ job[c].scan.id \in Nat
      BY <2>2, <2>3
    <3>2. rec.artifact_scan_id # None
      BY <3>1, NoneAssumption
    <3>3. c = b
      BY <2>6, <3>1, <3>2 DEF IInv, FreshIds
    <3>4. job'[b] = IdleJob
      BY <1>2, <3>2
    <3> QED
      BY <3>3, <3>4 DEF Pending, IdleJob
  <2>9. \A c \in Builders : Pending(c)' =>
           \A r \in builds' : r.artifact_scan_id # job'[c].scan.id
    BY <2>2, <2>8 DEF IInv, FreshIds
  <2> QED
    BY <2>4, <2>5, <2>7, <2>9 DEF FreshIds
<1>7. \A r \in builds' : RecordBacked(r)'
  BY DEF IInv, RecordBacked
<1> QED
  BY <1>4, <1>5, <1>6, <1>7 DEF IInv

LEMMA PlanBuildStep ==
    ASSUME IInv, NEW b \in Builders, NEW r \in Recipes, PlanBuild(b, r)
    PROVE  IInv'
<1> DEFINE rec ==
      [id |-> clock, recipe_digest |-> r, status |-> "planned", created_at |-> clock,
       timestamped |-> FALSE, source_scan_id |-> None, source_scan_digest |-> None,
       artifact_scan_id |-> None, artifact |-> None, policy_decision |-> None]
<1>1. clock \in Nat /\ accepted \in Nat
  BY DEF IInv, TypeOK
<1>2. rec \in BuildRecord
  BY <1>1 DEF BuildRecord
<1>3. RecordBacked(rec) /\ rec.artifact_scan_id = None
  BY DEF RecordBacked
<1>4. builds' = builds \cup {rec}
  BY DEF PlanBuild
<1> HIDE DEF rec
<1>5. /\ clock' \in Nat /\ clock' >= clock /\ accepted' \in Nat
      /\ evidence' \in Builders \cup {None} /\ job' = job
      /\ UNCHANGED <<tree, cache, scans, vex, expired, pull>>
  BY <1>1 DEF PlanBuild, Stamp, IInv, TypeOK
<1> QED
  BY <1>2, <1>3, <1>4, <1>5, AppendRecord

LEMMA DenyIntakeStep ==
    ASSUME IInv, NEW b \in Builders, DenyIntake(b)
    PROVE  IInv'
<1> DEFINE j == [job[b] EXCEPT !.decision = "denied"]
           rec == Record(j, clock, "failed", None)
<1>1. clock \in Nat /\ accepted \in Nat /\ job[b] \in Job
  BY DEF IInv, TypeOK
<1>2. /\ j.recipe = job[b].recipe /\ j.source = job[b].source
      /\ j.artifact = job[b].artifact /\ j.decision = "denied"
  BY <1>1 DEF Job
<1>3. /\ job[b].recipe \in Recipes /\ job[b].source \in Scan /\ job[b].artifact = None
  BY DEF IInv, TypeOK, Gathered, DenyIntake, Step
<1>4. rec \in BuildRecord
  BY <1>1, <1>2, <1>3, RecordType DEF Verdict
<1>5. RecordBacked(rec) /\ rec.artifact_scan_id = None
  BY DEF RecordBacked, Record
<1>6. builds' = builds \cup {rec}
  BY DEF DenyIntake
<1> HIDE DEF rec
<1>7. /\ clock' \in Nat /\ clock' >= clock /\ accepted' \in Nat
      /\ evidence' \in Builders \cup {None} /\ job' = Abandon(b)
      /\ UNCHANGED <<tree, cache, scans, vex, expired, pull>>
  BY <1>1 DEF DenyIntake, Stamp, IInv, TypeOK
<1> QED
  BY <1>4, <1>5, <1>6, <1>7, AppendRecord

LEMMA CommitBuildStep ==
    ASSUME IInv, NEW b \in Builders, CommitBuild(b)
    PROVE  IInv'
<1> DEFINE rec == Record(job[b], job[b].started, "succeeded", job[b].scan.id)
<1>1. clock \in Nat /\ accepted \in Nat /\ job[b] \in Job /\ scans \subseteq Scan
  BY DEF IInv, TypeOK
<1>2. Gathered(b) /\ job[b].pc = "commit" /\ Pending(b)
  BY DEF IInv, CommitBuild, Step, Pending
<1>3. /\ job[b].recipe \in Recipes /\ job[b].source \in scans
      /\ job[b].source.mode = "source"
      /\ job[b].artifact \in ArtifactRef /\ job[b].artifact.retained
      /\ job[b].artifact.digest = job[b].source.declared_artifact_digest
      /\ job[b].decision \in Verdict
      /\ job[b].scan \in scans
      /\ job[b].scan.recipe_digest = job[b].recipe
      /\ job[b].scan.layers = {job[b].artifact.digest}
      /\ job[b].scan.filesystem_digest = [layer |-> job[b].artifact.digest]
  BY <1>2 DEF Gathered
<1>4. job[b].source \in Scan /\ job[b].scan.id \in Nat /\ job[b].started \in Nat
  BY <1>1, <1>3 DEF Scan, Job
<1>5. rec \in BuildRecord
  BY <1>3, <1>4, RecordType
<1>6. /\ rec.artifact_scan_id = job[b].scan.id /\ rec.artifact = job[b].artifact
      /\ rec.source_scan_id = job[b].source.id /\ rec.source_scan_digest = job[b].source
      /\ rec.recipe_digest = job[b].recipe /\ rec.policy_decision = job[b].decision
  BY DEF Record
<1>7. builds' = builds \cup {rec}
  BY DEF CommitBuild
<1> HIDE DEF rec
<1>8. RecordBacked(rec)
  BY <1>3, <1>6, NoneAssumption DEF RecordBacked
<1>9. /\ clock' \in Nat /\ clock' >= clock /\ accepted' \in Nat
      /\ evidence' \in Builders \cup {None} /\ job' = Abandon(b)
      /\ UNCHANGED <<tree, cache, scans, vex, expired, pull>>
  BY <1>1 DEF CommitBuild
<1> QED
  BY <1>2, <1>5, <1>6, <1>7, <1>8, <1>9, AppendRecord

LEMMA SaveRecordStep ==
    ASSUME IInv, NEW b \in Builders, SaveRecord(b)
    PROVE  IInv'
<1> DEFINE status == IF job[b].artifact = None THEN "failed" ELSE "succeeded"
           rec == Record(job[b], job[b].started, status, None)
<1>1. /\ clock \in Nat /\ accepted \in Nat /\ job[b] \in Job /\ scans \subseteq Scan
      /\ evidence \in Builders \cup {None}
  BY DEF IInv, TypeOK
<1>2. Gathered(b) /\ job[b].pc = "record"
  BY DEF IInv, SaveRecord, Step
<1>3. /\ job[b].recipe \in Recipes /\ job[b].source \in scans
      /\ job[b].source.mode = "source"
      /\ job[b].artifact # None =>
            /\ ~job[b].artifact.retained
            /\ job[b].artifact.digest = job[b].source.declared_artifact_digest
  BY <1>2 DEF Gathered
<1>4. /\ job[b].source \in Scan /\ job[b].started \in Nat
      /\ job[b].artifact \in ArtifactRef \cup {None}
      /\ job[b].decision \in Verdict \cup {None}
  BY <1>1, <1>3 DEF Job
<1>5. rec \in BuildRecord
  BY <1>3, <1>4, RecordType
<1>6. /\ rec.artifact_scan_id = None /\ rec.artifact = job[b].artifact
      /\ rec.source_scan_id = job[b].source.id /\ rec.source_scan_digest = job[b].source
      /\ rec.status = status
  BY DEF Record
<1>7. builds' = builds \cup {rec}
  BY DEF SaveRecord
<1>8. status = "succeeded" => job[b].artifact # None
  OBVIOUS
<1> HIDE DEF rec, status
<1>9. RecordBacked(rec)
  BY <1>3, <1>6, <1>8 DEF RecordBacked
<1>10. /\ clock' \in Nat /\ clock' >= clock /\ accepted' \in Nat
       /\ evidence' \in Builders \cup {None} /\ job' = Abandon(b)
       /\ UNCHANGED <<tree, cache, scans, vex, expired, pull>>
  BY <1>1 DEF SaveRecord
<1> QED
  BY <1>5, <1>6, <1>7, <1>9, <1>10, AppendRecord
-----------------------------------------------------------------------------
(***************************************************************************)
(* The steps that write or remove a scan.                                  *)
(***************************************************************************)
LEMMA ScanSourceStep ==
    ASSUME IInv, NEW b \in Builders, ScanSource(b)
    PROVE  IInv'
<1> DEFINE s == SourceScan(job[b].recipe)
           j == [job[b] EXCEPT !.pc = "intake", !.source = s]
<1>1. clock \in Nat /\ accepted \in Nat /\ job[b] \in Job /\ scans \subseteq Scan
  BY DEF IInv, TypeOK
<1>2. Gathered(b) /\ job[b].pc = "scan"
  BY DEF IInv, ScanSource, Step
<1>3. job[b].recipe \in Recipes /\ job[b].artifact = None
  BY <1>2 DEF Gathered
<1>4. s \in Scan
  BY <1>3, SourceScanType DEF IInv
<1>5. s.id = clock /\ s.mode = "source" /\ s.recipe_digest = job[b].recipe
  BY DEF SourceScan
<1>6. j \in Job
  BY <1>1, <1>4 DEF Job
<1>7. /\ job' = [job EXCEPT ![b] = j] /\ job'[b] = j /\ scans' = scans \cup {s}
      /\ clock' = clock + 1
      /\ UNCHANGED <<tree, cache, builds, vex, expired, accepted, evidence, pull>>
  BY <1>1 DEF ScanSource, Stamp, IInv, TypeOK
<1>8. /\ j.pc = "intake" /\ j.recipe = job[b].recipe /\ j.source = s
      /\ j.artifact = job[b].artifact
  BY <1>1 DEF Job
<1> HIDE DEF s, j
<1>9. \A c \in Builders : c # b => job'[c] = job[c]
  BY <1>7 DEF IInv, TypeOK
<1>10. TypeOK'
  BY <1>1, <1>4, <1>6, <1>7 DEF IInv, TypeOK
<1>11. Gathered(b)' /\ FileIntact(b)' /\ ~Pending(b)'
  BY <1>3, <1>5, <1>7, <1>8 DEF Gathered, FileIntact, Pending
<1>12. \A c \in Builders : Gathered(c)' /\ FileIntact(c)'
  <2> TAKE c \in Builders
  <2>1. CASE c = b
    BY <1>11, <2>1
  <2>2. CASE c # b
    BY <1>7, <1>9, <2>2 DEF IInv, Gathered, FileIntact, Pending
  <2> QED
    BY <2>1, <2>2
<1>13. FreshIds'
  <2>1. /\ \A t \in scans : t.id \in Nat /\ t.id < clock
        /\ \A r \in builds : r.artifact_scan_id \in Nat \cup {None}
    BY DEF IInv, TypeOK, FreshIds, Scan, BuildRecord
  <2>2. \A c \in Builders : Pending(c)' => Pending(c) /\ job'[c] = job[c]
    BY <1>9, <1>11 DEF Pending
  <2>3. \A c \in Builders : Pending(c) => job[c].scan.id \in Nat /\ job[c].scan.id < clock
    BY DEF IInv, FreshIds, Gathered, Scan
  <2>4. \A t \in scans' : t.id < clock'
    BY <1>1, <1>5, <1>7, <2>1
  <2>5. \A t, u \in scans' : t.id = u.id => t = u
    BY <1>1, <1>5, <1>7, <2>1 DEF IInv, FreshIds
  <2>6. \A c \in Builders : Pending(c)' => job'[c].scan.id < clock'
    BY <1>1, <1>7, <2>2, <2>3
  <2>7. \A c \in Builders : Pending(c)' =>
           \A t \in scans' : t.id = job'[c].scan.id => t = job'[c].scan
    BY <1>1, <1>5, <1>7, <2>2, <2>3 DEF IInv, FreshIds
  <2>8. \A c, d \in Builders :
           Pending(c)' /\ Pending(d)' /\ job'[c].scan.id = job'[d].scan.id => c = d
    BY <2>2 DEF IInv, FreshIds
  <2>9. \A r \in builds' : r.artifact_scan_id # None => r.artifact_scan_id < clock'
    BY <1>1, <1>7, <2>1 DEF IInv, FreshIds
  <2>10. \A c \in Builders : Pending(c)' =>
            \A r \in builds' : r.artifact_scan_id # job'[c].scan.id
    BY <1>7, <2>2 DEF IInv, FreshIds
  <2> QED
    BY <2>4, <2>5, <2>6, <2>7, <2>8, <2>9, <2>10 DEF FreshIds
<1>14. \A r \in builds' : RecordBacked(r)'
  BY <1>7 DEF IInv, RecordBacked
<1> QED
  BY <1>10, <1>12, <1>13, <1>14 DEF IInv

LEMMA SaveScanStep ==
    ASSUME IInv, NEW b \in Builders, SaveScan(b)
    PROVE  IInv'
<1> DEFINE j == [job[b] EXCEPT !.pc = "commit"]
<1>1. job[b] \in Job /\ scans \subseteq Scan
  BY DEF IInv, TypeOK
<1>2. Gathered(b) /\ job[b].pc = "save_scan" /\ Pending(b)
  BY DEF IInv, SaveScan, Step, Pending
<1>3. job[b].scan \in Scan
  BY <1>2 DEF Gathered
<1>4. j \in Job
  BY <1>1 DEF Job
<1>5. /\ job' = [job EXCEPT ![b] = j] /\ job'[b] = j /\ scans' = scans \cup {job[b].scan}
      /\ evidence' = b
      /\ UNCHANGED <<tree, cache, builds, vex, expired, clock, accepted, pull>>
  BY <1>1 DEF SaveScan, Goto, IInv, TypeOK
<1>6. /\ j.pc = "commit" /\ j.recipe = job[b].recipe /\ j.source = job[b].source
      /\ j.artifact = job[b].artifact /\ j.scan = job[b].scan
      /\ j.decision = job[b].decision
  BY <1>1 DEF Job
<1> HIDE DEF j
<1>7. \A c \in Builders : c # b => job'[c] = job[c]
  BY <1>5 DEF IInv, TypeOK
<1>8. TypeOK'
  BY <1>1, <1>3, <1>4, <1>5 DEF IInv, TypeOK
<1>9. Gathered(b)' /\ FileIntact(b)'
  BY <1>2, <1>5, <1>6 DEF Gathered, FileIntact, Pending
<1>10. \A c \in Builders : Gathered(c)' /\ FileIntact(c)'
  <2> TAKE c \in Builders
  <2>1. CASE c = b
    BY <1>9, <2>1
  <2>2. CASE c # b
    BY <1>5, <1>7, <2>2 DEF IInv, Gathered, FileIntact, Pending
  <2> QED
    BY <2>1, <2>2
<1>11. FreshIds'
  <2>1. \A c \in Builders : Pending(c)' => Pending(c) /\ job'[c].scan = job[c].scan
    BY <1>2, <1>5, <1>6, <1>7 DEF Pending
  <2>2. \A s \in scans' : s.id < clock'
    BY <1>2, <1>5 DEF IInv, FreshIds
  <2>3. \A s, t \in scans' : s.id = t.id => s = t
    BY <1>2, <1>5 DEF IInv, FreshIds
  <2>4. \A c, d \in Builders :
           Pending(c)' /\ Pending(d)' /\ job'[c].scan.id = job'[d].scan.id => c = d
    BY <2>1 DEF IInv, FreshIds
  <2>5. \A c \in Builders : Pending(c)' =>
           \A s \in scans' : s.id = job'[c].scan.id => s = job'[c].scan
    <3> SUFFICES ASSUME NEW c \in Builders, Pending(c)', NEW s \in scans',
                        s.id = job'[c].scan.id
                 PROVE  s = job'[c].scan
      OBVIOUS
    <3>1. Pending(c) /\ job'[c].scan = job[c].scan
      BY <2>1
    <3>2. CASE s \in scans
      BY <3>1, <3>2 DEF IInv, FreshIds
    <3>3. CASE s = job[b].scan
      BY <1>2, <3>1, <3>3 DEF IInv, FreshIds
    <3> QED
      BY <1>5, <3>2, <3>3
  <2>6. /\ \A c \in Builders : Pending(c)' => job'[c].scan.id < clock'
        /\ \A r \in builds' : r.artifact_scan_id # None => r.artifact_scan_id < clock'
        /\ \A c \in Builders : Pending(c)' =>
              \A r \in builds' : r.artifact_scan_id # job'[c].scan.id
    BY <1>5, <2>1 DEF IInv, FreshIds
  <2> QED
    BY <2>2, <2>3, <2>4, <2>5, <2>6 DEF FreshIds
<1>12. \A r \in builds' : RecordBacked(r)'
  BY <1>5 DEF IInv, RecordBacked
<1> QED
  BY <1>8, <1>10, <1>11, <1>12 DEF IInv

\* The scan that is rolled back belongs to this handler alone: no record and no other
\* handler relies on it.
LEMMA CommitFailsStep ==
    ASSUME IInv, NEW b \in Builders, CommitFails(b)
    PROVE  IInv'
<1>1. CASE scans' = scans
  BY <1>1, AbandonStep DEF CommitFails, IInv, TypeOK
<1>2. CASE scans' = scans \ {job[b].scan}
  <2>1. Gathered(b) /\ Pending(b) /\ job[b].scan.mode = "filesystem"
    BY DEF IInv, CommitFails, Step, Pending, Gathered
  <2>2. /\ job' = [job EXCEPT ![b] = IdleJob] /\ job'[b] = IdleJob /\ evidence' = None
        /\ UNCHANGED <<tree, cache, builds, vex, expired, clock, accepted, pull>>
    BY DEF CommitFails, Abandon, IInv, TypeOK
  <2>3. \A c \in Builders : c # b => job'[c] = job[c]
    BY <2>2 DEF IInv, TypeOK
  <2>4. TypeOK'
    BY <1>2, <2>2, IdleJobType DEF IInv, TypeOK
  <2>5. \A c \in Builders : Gathered(c)' /\ FileIntact(c)'
    <3> TAKE c \in Builders
    <3>1. CASE c = b
      BY <2>2, <3>1 DEF Gathered, FileIntact, Pending, IdleJob
    <3>2. CASE c # b
      <4>1. job[c].pc = "commit" => job[c].scan # job[b].scan
        BY <2>1, <3>2 DEF IInv, FreshIds, Pending
      <4>2. Gathered(c) /\ FileIntact(c) /\ job'[c] = job[c]
        BY <2>3, <3>2 DEF IInv
      <4> QED
        BY <1>2, <2>1, <2>2, <4>1, <4>2 DEF Gathered, FileIntact, Pending
    <3> QED
      BY <3>1, <3>2
  <2>6. FreshIds'
    <3>1. \A c \in Builders : Pending(c)' => Pending(c) /\ job'[c] = job[c]
      BY <2>2, <2>3 DEF Pending, IdleJob
    <3> QED
      BY <1>2, <2>2, <3>1 DEF IInv, FreshIds
  <2>7. \A r \in builds' : RecordBacked(r)'
    <3> SUFFICES ASSUME NEW r \in builds
                 PROVE  RecordBacked(r)'
      BY <2>2
    <3>1. RecordBacked(r) /\ r.artifact_scan_id # job[b].scan.id
      BY <2>1 DEF IInv, FreshIds
    <3> QED
      BY <1>2, <2>1, <3>1 DEF RecordBacked
  <2> QED
    BY <2>4, <2>5, <2>6, <2>7 DEF IInv
<1> QED
  BY <1>1, <1>2 DEF CommitFails
-----------------------------------------------------------------------------
(***************************************************************************)
(* The steps on the cache, and the rest of the environment.                *)
(***************************************************************************)
LEMMA LinkNewStep ==
    ASSUME IInv, NEW b \in Builders, LinkNew(b)
    PROVE  IInv'
<1> DEFINE d == job[b].bytes
           j == [job[b] EXCEPT !.pc = "recheck", !.artifact = PublishedRef(b)]
<1>1. job[b] \in Job
  BY DEF IInv, TypeOK
<1>2. Gathered(b) /\ job[b].pc = "publish"
  BY DEF IInv, LinkNew, Step
<1>3. d \in Layers
  BY <1>2 DEF Gathered
<1>4. /\ PublishedRef(b) \in ArtifactRef
      /\ PublishedRef(b).digest = d /\ PublishedRef(b).retained
  BY <1>2, PublishedRefType
<1>5. j \in Job
  BY <1>1, <1>4 DEF Job
<1>6. /\ job' = [job EXCEPT ![b] = j] /\ job'[b] = j
      /\ cache' = [cache EXCEPT ![d] = d]
      /\ UNCHANGED <<tree, scans, builds, vex, expired, clock, accepted, evidence, pull>>
  BY <1>1 DEF LinkNew, IInv, TypeOK
<1>7. /\ j.pc = "recheck" /\ j.recipe = job[b].recipe /\ j.source = job[b].source
      /\ j.artifact = PublishedRef(b)
  BY <1>1 DEF Job
<1> HIDE DEF j, d
<1>8. \A c \in Builders : c # b => job'[c] = job[c]
  BY <1>6 DEF IInv, TypeOK
<1>9. TypeOK'
  BY <1>3, <1>5, <1>6 DEF IInv, TypeOK
<1>10. cache'[d] = d /\ \A e \in Layers : e # d => cache'[e] = cache[e]
  BY <1>3, <1>6 DEF IInv, TypeOK
<1>11. \A c \in Builders : Gathered(c)'
  <2> TAKE c \in Builders
  <2>1. CASE c = b
    BY <1>2, <1>4, <1>6, <1>7, <2>1 DEF Gathered, Pending
  <2>2. CASE c # b
    BY <1>6, <1>8, <2>2 DEF IInv, Gathered, Pending
  <2> QED
    BY <2>1, <2>2
<1>12. \A c \in Builders : FileIntact(c)'
  <2> TAKE c \in Builders
  <2>1. CASE c = b
    BY <1>4, <1>6, <1>7, <1>10, <2>1 DEF FileIntact
  <2>2. CASE c # b
    <3>1. job'[c] = job[c] /\ FileIntact(c) /\ Gathered(c)
      BY <1>8, <2>2 DEF IInv
    <3>2. job[c].pc \in {"recheck", "inspect"} => job[c].artifact.digest \in Layers
      BY <3>1 DEF Gathered, ArtifactRef
    <3> QED
      BY <1>10, <3>1, <3>2 DEF FileIntact
  <2> QED
    BY <2>1, <2>2
<1>13. FreshIds'
  <2>1. \A c \in Builders : Pending(c)' => Pending(c) /\ job'[c] = job[c]
    BY <1>6, <1>7, <1>8 DEF Pending
  <2> QED
    BY <1>6, <2>1 DEF IInv, FreshIds
<1>14. \A r \in builds' : RecordBacked(r)'
  BY <1>6 DEF IInv, RecordBacked
<1> QED
  BY <1>9, <1>11, <1>12, <1>13, <1>14 DEF IInv

LEMMA SweepRemoveStep ==
    ASSUME IInv, NEW d \in Layers, SweepRemove(d)
    PROVE  IInv'
<1>1. /\ cache' = [cache EXCEPT ![d] = None]
      /\ UNCHANGED <<tree, scans, builds, vex, expired, clock, accepted, evidence, job, pull>>
  BY DEF SweepRemove
<1>2. \A e \in Layers : cache'[e] \in {cache[e], None}
  BY <1>1 DEF IInv, TypeOK
<1>3. TypeOK'
  BY <1>1 DEF IInv, TypeOK
<1>4. \A c \in Builders : Gathered(c)'
  BY <1>1 DEF IInv, Gathered, Pending
<1>5. \A c \in Builders : FileIntact(c)'
  <2> TAKE c \in Builders
  <2>1. job[c].pc \in {"recheck", "inspect"} => job[c].artifact.digest \in Layers
    BY DEF IInv, Gathered, ArtifactRef
  <2>2. FileIntact(c)
    BY DEF IInv
  <2> QED
    BY <1>1, <1>2, <2>1, <2>2 DEF FileIntact
<1>6. FreshIds'
  BY <1>1 DEF IInv, FreshIds, Pending
<1>7. \A r \in builds' : RecordBacked(r)'
  BY <1>1 DEF IInv, RecordBacked
<1> QED
  BY <1>3, <1>4, <1>5, <1>6, <1>7 DEF IInv

LEMMA CrashStep ==
    ASSUME IInv, Crash
    PROVE  IInv'
<1>1. PICK lost \in SUBSET {d \in Layers : cache[d] # None} :
        cache' = [d \in Layers |-> IF d \in lost THEN Torn ELSE cache[d]]
  BY DEF Crash
<1>2. /\ job' = [c \in Builders |-> IdleJob] /\ pull' = [p \in Pullers |-> IdlePull]
      /\ evidence' = None
      /\ UNCHANGED <<tree, scans, builds, vex, expired, clock, accepted>>
  BY DEF Crash
<1>3. IdlePull \in Pull
  BY DEF IdlePull, Pull
<1>4. TypeOK'
  BY <1>1, <1>2, <1>3, IdleJobType DEF IInv, TypeOK
<1>5. \A c \in Builders : job'[c] = IdleJob
  BY <1>2
<1>6. \A c \in Builders : Gathered(c)' /\ FileIntact(c)' /\ ~Pending(c)'
  BY <1>5 DEF Gathered, FileIntact, Pending, IdleJob
<1>7. FreshIds'
  BY <1>2, <1>6 DEF IInv, FreshIds
<1>8. \A r \in builds' : RecordBacked(r)'
  BY <1>2 DEF IInv, RecordBacked
<1> QED
  BY <1>4, <1>6, <1>7, <1>8 DEF IInv

\* Nothing the invariant speaks of moves: edits, statements, expiries and the readers.
LEMMA OutsideStep ==
    ASSUME IInv, TypeOK', UNCHANGED <<cache, scans, builds, clock, job>>
    PROVE  IInv'
<1>1. \A c \in Builders : Gathered(c)' /\ FileIntact(c)'
  BY DEF IInv, Gathered, FileIntact, Pending
<1>2. FreshIds'
  BY DEF IInv, FreshIds, Pending
<1>3. \A r \in builds' : RecordBacked(r)'
  BY DEF IInv, RecordBacked
<1> QED
  BY <1>1, <1>2, <1>3 DEF IInv

LEMMA EnvironmentStep ==
    ASSUME IInv, Environment
    PROVE  IInv'
<1>1. ASSUME NEW b \in Builders, Abort(b) PROVE IInv'
  <2>1. evidence' \in Builders \cup {None} /\ job' = Abandon(b)
    BY <1>1 DEF Abort, IInv, TypeOK
  <2> QED
    BY <1>1, <2>1, AbandonStep DEF Abort
<1>2. ASSUME NEW r \in Recipes, EditTree(r) PROVE IInv'
  <2>1. PICK t \in Trees[r] : tree' = [tree EXCEPT ![r] = t]
    BY <1>2 DEF EditTree
  <2>2. t \in Tree
    BY <2>1, MaterializationAssumption
  <2>3. TypeOK'
    BY <1>2, <2>1, <2>2 DEF EditTree, IInv, TypeOK
  <2> QED
    BY <1>2, <2>3, OutsideStep DEF EditTree
<1>3. ASSUME NEW r \in Recipes, NEW s \in Statements, AddVex(r, s) PROVE IInv'
  <2>1. vex[r] \in Seq(Statements)
    BY DEF IInv, TypeOK
  <2>2. Append(vex[r], s) \in Seq(Statements)
    BY <2>1
  <2>3. TypeOK'
    BY <1>3, <2>2 DEF AddVex, IInv, TypeOK
  <2> QED
    BY <1>3, <2>3, OutsideStep DEF AddVex
<1>4. ASSUME NEW id \in {b.id : b \in builds}, ArtifactExpires(id) PROVE IInv'
  <2>1. id \in Nat
    BY DEF IInv, TypeOK, BuildRecord
  <2>2. TypeOK'
    BY <1>4, <2>1 DEF ArtifactExpires, IInv, TypeOK
  <2> QED
    BY <1>4, <2>2, OutsideStep DEF ArtifactExpires
<1> QED
  BY <1>1, <1>2, <1>3, <1>4, SweepRemoveStep, CrashStep DEF Environment
-----------------------------------------------------------------------------
(***************************************************************************)
(* The readers.                                                            *)
(***************************************************************************)
LEMMA PullStep ==
    ASSUME IInv, pull' \in [Pullers -> Pull],
           UNCHANGED <<tree, cache, scans, builds, vex, expired, clock, accepted, evidence, job>>
    PROVE  IInv'
<1>1. TypeOK'
  BY DEF IInv, TypeOK
<1> QED
  BY <1>1, OutsideStep

LEMMA AnswerType ==
    ASSUME TypeOK, NEW p \in Pullers
    PROVE  Answer(p) \in [Pullers -> Pull]
<1>1. IdlePull \in Pull
  BY DEF IdlePull, Pull
<1> QED
  BY <1>1 DEF Answer, TypeOK

LEMMA NoLayerType ==
    ASSUME TypeOK, NEW p \in Pullers
    PROVE  NoLayer(p) \in [Pullers -> Pull]
<1>1. CASE pull[p].kind = "manifest"
  BY <1>1, AnswerType DEF NoLayer
<1>2. CASE pull[p].kind # "manifest"
  <2>1. [pull[p] EXCEPT !.pc = "layer", !.recipe = None, !.layer = None] \in Pull
    BY DEF TypeOK, Pull
  <2> QED
    BY <1>2, <2>1 DEF NoLayer, TypeOK
<1> QED
  BY <1>1, <1>2

LEMMA SelectType ==
    ASSUME TypeOK, NEW p \in Pullers, NEW r \in Recipes, Select(p, r)
    PROVE  pull' \in [Pullers -> Pull]
<1>1. pull[p] \in Pull
  BY DEF TypeOK
<1>2. latest_build_evidence(r) \in BuildRecord \cup {None}
  BY EvidenceStored DEF TypeOK
<1>3. CASE HasLayerToServe(latest_build_evidence(r))
  <2>1. [pull[p] EXCEPT !.pc = "verify", !.recipe = r, !.todo = @ \ {r},
                        !.layer = latest_build_evidence(r)] \in Pull
    BY <1>1, <1>2 DEF Pull
  <2> QED
    BY <1>3, <2>1 DEF Select, TypeOK
<1>4. CASE ~HasLayerToServe(latest_build_evidence(r)) /\ pull[p].kind = "manifest"
  BY <1>4, AnswerType DEF Select
<1>5. CASE ~HasLayerToServe(latest_build_evidence(r)) /\ pull[p].kind # "manifest"
  <2>1. [pull[p] EXCEPT !.todo = @ \ {r}] \in Pull
    BY <1>1 DEF Pull
  <2> QED
    BY <1>5, <2>1 DEF Select, TypeOK
<1> QED
  BY <1>3, <1>4, <1>5

LEMMA ServeStep ==
    ASSUME IInv, PullInv, NEW p \in Pullers, Serve(p)
    PROVE  IInv'
<1> USE DEF IInv
<1>1. pull[p] \in Pull
  BY DEF TypeOK
<1>2. CASE SelectLayer(p)
  <2>1. CASE pull[p].kind = "manifest" /\ Select(p, pull[p].recipe) /\ pull[p].recipe # None
    <3>1. pull[p].recipe \in Recipes
      BY <1>1, <2>1 DEF Pull
    <3> QED
      BY <1>2, <2>1, <3>1, SelectType, PullStep DEF SelectLayer
  <2>2. CASE pull[p].kind = "manifest" /\ Select(p, pull[p].recipe) /\ pull[p].recipe = None
    <3>1. latest_build_evidence(None) = None
      <4>1. \A b \in builds : b.recipe_digest \in Recipes
        BY DEF TypeOK, BuildRecord
      <4> QED
        BY <4>1, NoneAssumption DEF latest_build_evidence, IsLatest, RecordsOf
    <3>2. pull' = Answer(p)
      BY <2>2, <3>1 DEF Select, HasLayerToServe
    <3> QED
      BY <1>2, <3>2, AnswerType, PullStep DEF SelectLayer
  <2>3. CASE \E r \in pull[p].todo : Select(p, r)
    <3>1. pull[p].todo \subseteq Recipes
      BY <1>1 DEF Pull
    <3> QED
      BY <1>2, <2>3, <3>1, SelectType, PullStep DEF SelectLayer
  <2>4. CASE pull' = Answer(p)
    BY <1>2, <2>4, AnswerType, PullStep DEF SelectLayer
  <2> QED
    BY <1>2, <2>1, <2>2, <2>3, <2>4 DEF SelectLayer
<1>3. CASE VerifyLayer(p)
  <2>1. /\ [pull[p] EXCEPT !.pc = "served"] \in Pull
        /\ [pull[p] EXCEPT !.pc = "gate"] \in Pull
    BY <1>1 DEF Pull
  <2>2. /\ [pull EXCEPT ![p].pc = "served"] \in [Pullers -> Pull]
        /\ [pull EXCEPT ![p].pc = "gate"] \in [Pullers -> Pull]
    BY <2>1 DEF TypeOK
  <2>3. pull' \in {NoLayer(p), [pull EXCEPT ![p].pc = "served"], [pull EXCEPT ![p].pc = "gate"]}
    BY <1>3 DEF VerifyLayer
  <2>4. pull' \in [Pullers -> Pull]
    BY <2>2, <2>3, NoLayerType
  <2> QED
    BY <1>3, <2>4, PullStep DEF VerifyLayer
<1>4. CASE ReadEvidence(p)
  <2>1. latest_build_evidence(pull[p].recipe) \in BuildRecord \cup {None}
    BY EvidenceStored DEF TypeOK
  <2>2. [pull[p] EXCEPT !.pc = "judge", !.gated = latest_build_evidence(pull[p].recipe)] \in Pull
    BY <1>1, <2>1 DEF Pull
  <2>3. pull' \in [Pullers -> Pull]
    BY <1>4, <2>2 DEF ReadEvidence, TypeOK
  <2> QED
    BY <1>4, <2>3, PullStep DEF ReadEvidence
<1>5. CASE Judge(p)
  <2>1. /\ [pull[p] EXCEPT !.pc = "layer"] \in Pull
        /\ [pull[p] EXCEPT !.pc = "open"] \in Pull
    BY <1>1 DEF Pull
  <2>2. \A to \in {"layer", "open"} : [pull EXCEPT ![p].pc = to] \in [Pullers -> Pull]
    BY <2>1 DEF TypeOK
  <2>3. pull' = Answer(p) \/ \E to \in {"layer", "open"} : pull' = [pull EXCEPT ![p].pc = to]
    BY <1>5 DEF Judge
  <2>4. pull' \in [Pullers -> Pull]
    BY <2>2, <2>3, AnswerType
  <2> QED
    BY <1>5, <2>4, PullStep DEF Judge
<1>6. CASE OpenBlob(p)
  <2>1. CASE cache[pull[p].layer.artifact.digest] = None
    BY <1>6, <2>1, AnswerType, PullStep DEF OpenBlob
  <2>2. CASE cache[pull[p].layer.artifact.digest] # None
    <3>1. pull[p].layer.artifact.digest = pull[p].want /\ cache[pull[p].want] \in Layers
      BY <1>6, <2>2 DEF PullInv, Selected, Blob, OpenBlob, At
    <3>2. [pull[p] EXCEPT !.pc = "served", !.bytes = cache[pull[p].want]] \in Pull
      BY <1>1, <3>1 DEF Pull
    <3>3. pull' \in [Pullers -> Pull]
      BY <1>6, <2>2, <3>1, <3>2 DEF OpenBlob, TypeOK
    <3> QED
      BY <1>6, <3>3, PullStep DEF OpenBlob
  <2> QED
    BY <2>1, <2>2
<1>7. CASE EndPull(p)
  BY <1>7, AnswerType, PullStep DEF EndPull
<1> QED
  BY <1>2, <1>3, <1>4, <1>5, <1>6, <1>7 DEF Serve

LEMMA RequestStep ==
    ASSUME IInv, Request
    PROVE  IInv'
<1>1. ASSUME NEW p \in Pullers, NEW r \in Recipes, ManifestStart(p, r) PROVE IInv'
  <2>1. [IdlePull EXCEPT !.pc = "gate", !.kind = "manifest", !.recipe = r] \in Pull
    BY DEF IdlePull, Pull
  <2>2. pull' \in [Pullers -> Pull]
    BY <1>1, <2>1 DEF ManifestStart, IInv, TypeOK
  <2> QED
    BY <1>1, <2>2, PullStep DEF ManifestStart
<1>2. ASSUME NEW p \in Pullers, NEW d \in Layers, BlobStart(p, d) PROVE IInv'
  <2>1. [IdlePull EXCEPT !.pc = "layer", !.kind = "blob", !.want = d, !.todo = Recipes] \in Pull
    BY DEF IdlePull, Pull
  <2>2. pull' \in [Pullers -> Pull]
    BY <1>2, <2>1 DEF BlobStart, IInv, TypeOK
  <2> QED
    BY <1>2, <2>2, PullStep DEF BlobStart
<1> QED
  BY <1>1, <1>2, PlanBuildStep, StartBuildStep DEF Request

LEMMA ImportStep ==
    ASSUME IInv, NEW b \in Builders, Import(b)
    PROVE  IInv'
<1>1. CASE CopyFails(b)
  BY <1>1, GotoStep DEF CopyFails, Step
<1>2. CASE ValidateInPlace(b)
  BY <1>2, GotoStep DEF ValidateInPlace, Step
<1>3. CASE LinkExists(b)
  BY <1>3, GotoStep DEF LinkExists, Step
<1>4. CASE InspectFails(b)
  BY <1>4, AbandonStep DEF InspectFails, IInv, TypeOK
<1> QED
  BY <1>1, <1>2, <1>3, <1>4, ScanSourceStep, DenyIntakeStep, StartImportStep, CopyLayerStep,
     DigestInPlaceStep, LinkNewStep, AdoptExistingStep, RecheckStep, InspectStep, DecideStep,
     SaveScanStep, CommitBuildStep, CommitFailsStep, SaveRecordStep DEF Import

-----------------------------------------------------------------------------
(***************************************************************************)
(* The readers' part of the invariant.                                     *)
(***************************************************************************)

\* No step removes a build record, and a cached file changes only by being removed or by
\* being linked with the bytes of its name, unless the power fails.
LEMMA StoreGrows ==
    ASSUME IInv, Next
    PROVE  /\ builds \subseteq builds'
           /\ ~Crash => \A d \in Layers : cache'[d] \in {cache[d], None, d}
<1>1. CASE Request
  BY <1>1 DEF Request, PlanBuild, StartBuild, ManifestStart, BlobStart
<1>2. ASSUME NEW b \in Builders, Import(b)
      PROVE  builds \subseteq builds' /\ \A d \in Layers : cache'[d] \in {cache[d], None, d}
  <2>1. CASE LinkNew(b)
    BY <2>1 DEF LinkNew, IInv, TypeOK
  <2> QED
    BY <1>2, <2>1 DEF Import, ScanSource, DenyIntake, StartImport, CopyFails, CopyLayer,
       ValidateInPlace, DigestInPlace, LinkExists, AdoptExisting, Recheck, Inspect,
       InspectFails, Decide, SaveScan, CommitBuild, CommitFails, SaveRecord
<1>3. ASSUME NEW p \in Pullers, Serve(p)
      PROVE  UNCHANGED <<builds, cache>>
  BY <1>3 DEF Serve, SelectLayer, VerifyLayer, ReadEvidence, Judge, OpenBlob, EndPull
<1>4. CASE Environment
  <2>1. ASSUME NEW d \in Layers, SweepRemove(d)
        PROVE  builds' = builds /\ \A e \in Layers : cache'[e] \in {cache[e], None, e}
    BY <2>1 DEF SweepRemove, IInv, TypeOK
  <2> QED
    BY <1>4, <2>1 DEF Environment, Abort, EditTree, AddVex, ArtifactExpires, Crash
<1> QED
  BY <1>1, <1>2, <1>3, <1>4 DEF Next

LEMMA PullFrame ==
    ASSUME PullInv, builds \subseteq builds', UNCHANGED pull,
           \A d \in Layers : cache'[d] \in {cache[d], None, d}
    PROVE  PullInv'
BY DEF PullInv, Selected, Blob

\* A step of one reader, which touches nothing else.
LEMMA ReaderStep ==
    ASSUME IInv, PullInv, NEW p \in Pullers, NEW q \in Pull,
           pull' = [pull EXCEPT ![p] = q], UNCHANGED <<cache, builds>>, Selected(p)'
    PROVE  PullInv'
<1>1. \A o \in Pullers : o # p => pull'[o] = pull[o]
  BY DEF IInv, TypeOK
<1>2. \A o \in Pullers : o # p => Selected(o)'
  BY <1>1 DEF PullInv, Selected, Blob
<1> QED
  BY <1>2 DEF PullInv

\* A reader that answers holds nothing.
LEMMA AnswerSelected ==
    ASSUME IInv, PullInv, NEW p \in Pullers, pull' = Answer(p), UNCHANGED <<cache, builds>>
    PROVE  PullInv'
<1>1. pull'[p] = IdlePull
  BY DEF IInv, TypeOK, Answer
<1>2. Selected(p)'
  BY <1>1 DEF Selected, Blob, IdlePull
<1>3. IdlePull \in Pull
  BY DEF IdlePull, Pull
<1> QED
  BY <1>2, <1>3, ReaderStep DEF Answer

LEMMA NoLayerSelected ==
    ASSUME IInv, PullInv, NEW p \in Pullers, pull' = NoLayer(p), UNCHANGED <<cache, builds>>
    PROVE  PullInv'
<1>1. CASE pull[p].kind = "manifest"
  BY <1>1, AnswerSelected DEF NoLayer
<1>2. CASE pull[p].kind # "manifest"
  <2> DEFINE q == [pull[p] EXCEPT !.pc = "layer", !.recipe = None, !.layer = None]
  <2>1. pull[p] \in Pull
    BY DEF IInv, TypeOK
  <2>2. q \in Pull /\ q.pc = "layer"
    BY <2>1 DEF Pull
  <2>3. pull' = [pull EXCEPT ![p] = q]
    BY <1>2 DEF NoLayer
  <2>4. pull'[p] = q
    BY <2>3 DEF IInv, TypeOK
  <2>5. Selected(p)'
    BY <2>2, <2>4 DEF Selected, Blob
  <2> HIDE DEF q
  <2> QED
    BY <2>2, <2>3, <2>5, ReaderStep
<1> QED
  BY <1>1, <1>2

LEMMA SelectSelected ==
    ASSUME IInv, PullInv, NEW p \in Pullers, NEW r, Select(p, r), UNCHANGED <<cache, builds>>,
           pull' \in [Pullers -> Pull], At(p, "layer")
    PROVE  PullInv'
<1> DEFINE build == latest_build_evidence(r)
<1>1. pull[p] \in Pull /\ pull[p].pc = "layer"
  BY DEF IInv, TypeOK, At
<1>2. CASE HasLayerToServe(build)
  <2> DEFINE q == [pull[p] EXCEPT !.pc = "verify", !.recipe = r, !.todo = @ \ {r},
                                  !.layer = build]
  <2>1. pull' = [pull EXCEPT ![p] = q]
    BY <1>2 DEF Select
  <2>2. pull'[p] = q
    BY <2>1 DEF IInv, TypeOK
  <2>3. q.pc = "verify" /\ q.recipe = r /\ q.layer = build
    BY <1>1 DEF Pull
  <2>4. q \in Pull
    BY <2>2
  <2>5. /\ build \in builds /\ build.recipe_digest = r
        /\ build.status = "succeeded" /\ build.artifact # None /\ build.artifact.retained
    BY <1>2 DEF latest_build_evidence, IsLatest, RecordsOf, HasLayerToServe
  <2>6. build.artifact \in ArtifactRef
    BY <2>5 DEF IInv, TypeOK, BuildRecord
  <2> HIDE DEF q, build
  <2>7. Selected(p)'
    BY <2>2, <2>3, <2>5, <2>6 DEF Selected, Blob
  <2> QED
    BY <2>1, <2>4, <2>7, ReaderStep
<1>3. CASE ~HasLayerToServe(build) /\ pull[p].kind = "manifest"
  BY <1>3, AnswerSelected DEF Select
<1>4. CASE ~HasLayerToServe(build) /\ pull[p].kind # "manifest"
  <2> DEFINE q == [pull[p] EXCEPT !.todo = @ \ {r}]
  <2>1. pull' = [pull EXCEPT ![p] = q]
    BY <1>4 DEF Select
  <2>2. pull'[p] = q
    BY <2>1 DEF IInv, TypeOK
  <2>3. q \in Pull /\ q.pc = "layer"
    BY <1>1, <2>2 DEF Pull
  <2>4. Selected(p)'
    BY <2>2, <2>3 DEF Selected, Blob
  <2> HIDE DEF q
  <2> QED
    BY <2>1, <2>3, <2>4, ReaderStep
<1> QED
  BY <1>2, <1>3, <1>4

LEMMA ServeSelected ==
    ASSUME IInv, PullInv, NEW p \in Pullers, Serve(p)
    PROVE  PullInv'
<1>1. /\ pull[p] \in Pull
      /\ pull' \in [Pullers -> Pull]
      /\ \A q : pull' = [pull EXCEPT ![p] = q] => pull'[p] = q
  BY ServeStep DEF IInv, TypeOK
<1>2. UNCHANGED <<cache, builds>>
  BY DEF Serve, SelectLayer, VerifyLayer, ReadEvidence, Judge, OpenBlob, EndPull
<1>3. Selected(p)
  BY DEF PullInv
<1>4. CASE SelectLayer(p)
  <2>1. At(p, "layer") /\ (pull' = Answer(p) \/ \E r : Select(p, r))
    BY <1>4 DEF SelectLayer
  <2> QED
    BY <1>1, <1>2, <2>1, AnswerSelected, SelectSelected
<1>5. CASE VerifyLayer(p)
  <2> DEFINE digest == pull[p].layer.artifact.digest
             served == [pull[p] EXCEPT !.pc = "served"]
             gate == [pull[p] EXCEPT !.pc = "gate"]
  <2>1. /\ digest \in Layers /\ pull[p].layer \in builds
        /\ pull[p].layer.recipe_digest = pull[p].recipe
        /\ pull[p].layer.status = "succeeded"
        /\ pull[p].layer.artifact \in ArtifactRef /\ pull[p].layer.artifact.retained
    BY <1>3, <1>5 DEF VerifyLayer, At, Selected, ArtifactRef
  <2>2. CASE ~validate_existing_cached_layer(digest)
    BY <1>2, <1>5, <2>2, NoLayerSelected DEF VerifyLayer
  <2>3. CASE validate_existing_cached_layer(digest) /\ pull[p].kind = "manifest"
    <3>1. pull' = [pull EXCEPT ![p] = served]
      BY <1>5, <2>3 DEF VerifyLayer
    <3>2. pull'[p] = served
      BY <1>1, <3>1
    <3>3. served \in Pull /\ served.pc = "served" /\ served.kind = "manifest"
      BY <1>1, <2>3, <3>2 DEF Pull
    <3> HIDE DEF served
    <3>4. Selected(p)'
      BY <3>2, <3>3 DEF Selected, Blob
    <3> QED
      BY <1>2, <3>1, <3>3, <3>4, ReaderStep
  <2>4. CASE /\ validate_existing_cached_layer(digest)
             /\ pull[p].kind # "manifest" /\ digest = pull[p].want
    <3>1. pull' = [pull EXCEPT ![p] = gate]
      BY <1>5, <2>4 DEF VerifyLayer
    <3>2. pull'[p] = gate
      BY <1>1, <3>1
    <3>3. gate \in Pull /\ gate.pc = "gate" /\ gate.want = digest /\ gate.layer = pull[p].layer
          /\ gate.recipe = pull[p].recipe
      BY <1>1, <2>4, <3>2 DEF Pull
    <3>4. cache'[digest] = digest
      BY <1>2, <2>4 DEF validate_existing_cached_layer
    <3>5. gate.layer.artifact.digest = gate.want
      BY <3>3
    <3> HIDE DEF gate, digest
    <3>6. Selected(p)'
      BY <1>2, <2>1, <3>2, <3>3, <3>4, <3>5 DEF Selected, Blob
    <3> QED
      BY <1>2, <3>1, <3>3, <3>6, ReaderStep
  <2>5. CASE /\ validate_existing_cached_layer(digest)
             /\ pull[p].kind # "manifest" /\ digest # pull[p].want
    BY <1>2, <1>5, <2>5, NoLayerSelected DEF VerifyLayer
  <2> QED
    BY <2>2, <2>3, <2>4, <2>5
<1>6. CASE ReadEvidence(p)
  <2> DEFINE q == [pull[p] EXCEPT !.pc = "judge",
                                  !.gated = latest_build_evidence(pull[p].recipe)]
  <2>1. pull' = [pull EXCEPT ![p] = q]
    BY <1>6 DEF ReadEvidence
  <2>2. pull'[p] = q
    BY <1>1, <2>1
  <2>3. /\ q \in Pull /\ q.pc = "judge" /\ pull[p].pc = "gate"
        /\ q.kind = pull[p].kind /\ q.want = pull[p].want /\ q.layer = pull[p].layer
        /\ q.recipe = pull[p].recipe
    BY <1>1, <1>6, <2>2 DEF Pull, ReadEvidence, At
  <2> HIDE DEF q
  <2>4. Selected(p)'
    BY <1>2, <1>3, <2>2, <2>3 DEF Selected, Blob
  <2> QED
    BY <1>2, <2>1, <2>3, <2>4, ReaderStep
<1>7. CASE Judge(p)
  <2>1. CASE pull' = Answer(p)
    BY <1>2, <2>1, AnswerSelected
  <2>2. CASE pull' # Answer(p)
    <3> DEFINE to == IF pull[p].kind = "manifest" THEN "layer" ELSE "open"
               q == [pull[p] EXCEPT !.pc = to]
    <3>1. pull' = [pull EXCEPT ![p] = q]
      BY <1>7, <2>2 DEF Judge
    <3>2. pull'[p] = q
      BY <1>1, <3>1
    <3>3. /\ q \in Pull /\ q.pc = to /\ pull[p].pc = "judge"
          /\ q.kind = pull[p].kind /\ q.want = pull[p].want /\ q.layer = pull[p].layer
          /\ q.recipe = pull[p].recipe
          /\ q.kind \in {"manifest", "blob"}
      BY <1>1, <1>7, <3>2 DEF Pull, Judge, At
    <3>4. \/ q.kind = "manifest" /\ q.pc = "layer"
          \/ q.kind = "blob" /\ q.pc = "open"
      BY <3>3
    <3> HIDE DEF q, to
    <3>5. Selected(p)'
      BY <1>2, <1>3, <3>2, <3>3, <3>4 DEF Selected, Blob
    <3> QED
      BY <1>2, <3>1, <3>3, <3>5, ReaderStep
  <2> QED
    BY <2>1, <2>2
<1>8. CASE OpenBlob(p)
  <2>1. CASE pull' = Answer(p)
    BY <1>2, <2>1, AnswerSelected
  <2>2. CASE pull' # Answer(p)
    <3> DEFINE digest == pull[p].layer.artifact.digest
               q == [pull[p] EXCEPT !.pc = "served", !.bytes = cache[digest]]
    <3>1. pull' = [pull EXCEPT ![p] = q] /\ cache[digest] # None
      BY <1>8, <2>2 DEF OpenBlob
    <3>2. pull'[p] = q
      BY <1>1, <3>1
    <3>3. pull[p].pc = "open" /\ pull[p].kind = "blob" /\ digest = pull[p].want
          /\ cache[pull[p].want] \in {None, pull[p].want}
      BY <1>3, <1>8 DEF OpenBlob, At, Selected, Blob
    <3>4. /\ q \in Pull /\ q.pc = "served" /\ q.bytes = cache[digest]
          /\ q.kind = pull[p].kind /\ q.want = pull[p].want /\ q.layer = pull[p].layer
          /\ q.recipe = pull[p].recipe
      BY <1>1, <3>2 DEF Pull
    <3>5. q.bytes = q.want
      BY <3>1, <3>3, <3>4
    <3> HIDE DEF q
    <3>6. Selected(p)'
      BY <1>2, <1>3, <3>2, <3>3, <3>4, <3>5 DEF Selected, Blob
    <3> QED
      BY <1>2, <3>1, <3>4, <3>6, ReaderStep
  <2> QED
    BY <2>1, <2>2
<1>9. CASE EndPull(p)
  BY <1>2, <1>9, AnswerSelected DEF EndPull
<1> QED
  BY <1>4, <1>5, <1>6, <1>7, <1>8, <1>9 DEF Serve

\* A request that begins holds nothing yet.
LEMMA RequestSelected ==
    ASSUME IInv, PullInv, Request
    PROVE  PullInv'
<1>1. ASSUME NEW p \in Pullers, NEW q \in Pull, pull' = [pull EXCEPT ![p] = q],
             UNCHANGED <<cache, builds>>, q.pc = "layer" \/ (q.pc = "gate" /\ q.kind = "manifest")
      PROVE  PullInv'
  <2>1. pull'[p] = q
    BY <1>1 DEF IInv, TypeOK
  <2>2. Selected(p)'
    BY <1>1, <2>1 DEF Selected, Blob
  <2> QED
    BY <1>1, <2>2, ReaderStep
<1>2. ASSUME NEW p \in Pullers, NEW r \in Recipes, ManifestStart(p, r) PROVE PullInv'
  <2> DEFINE q == [IdlePull EXCEPT !.pc = "gate", !.kind = "manifest", !.recipe = r]
  <2>1. q \in Pull /\ q.pc = "gate" /\ q.kind = "manifest"
    BY DEF IdlePull, Pull
  <2>2. pull' = [pull EXCEPT ![p] = q] /\ UNCHANGED <<cache, builds>>
    BY <1>2 DEF ManifestStart
  <2> HIDE DEF q
  <2> QED
    BY <1>1, <2>1, <2>2
<1>3. ASSUME NEW p \in Pullers, NEW d \in Layers, BlobStart(p, d) PROVE PullInv'
  <2> DEFINE q == [IdlePull EXCEPT !.pc = "layer", !.kind = "blob", !.want = d,
                                   !.todo = Recipes]
  <2>1. /\ q \in Pull
        /\ q.pc = "layer" \/ (q.pc = "gate" /\ q.kind = "manifest")
    BY DEF IdlePull, Pull
  <2>2. /\ pull' = [pull EXCEPT ![p] = q]
        /\ UNCHANGED <<cache, builds>>
    BY <1>3 DEF BlobStart
  <2> HIDE DEF q
  <2> QED
    BY <1>1, <2>1, <2>2
<1>4. ASSUME NEW b \in Builders, NEW r \in Recipes,
             PlanBuild(b, r) \/ \E c \in BOOLEAN : StartBuild(b, r, c)
      PROVE  PullInv'
  <2>1. builds \subseteq builds' /\ UNCHANGED <<pull, cache>>
    BY <1>4 DEF PlanBuild, StartBuild
  <2> QED
    BY <2>1, PullFrame
<1>5. CASE \E b \in Builders, r \in Recipes :
              PlanBuild(b, r) \/ \E c \in BOOLEAN : StartBuild(b, r, c)
  BY <1>4, <1>5
<1>6. CASE \E p \in Pullers : \/ \E r \in Recipes : ManifestStart(p, r)
                              \/ \E d \in Layers : BlobStart(p, d)
  BY <1>2, <1>3, <1>6
<1> QED
  BY <1>5, <1>6 DEF Request

LEMMA NextStep ==
    ASSUME IInv, PullInv, Next
    PROVE  IInv' /\ PullInv'
<1>1. IInv'
  BY RequestStep, ImportStep, ServeStep, EnvironmentStep DEF Next
<1>2. CASE Crash
  <2>1. \A p \in Pullers : pull'[p] = IdlePull
    BY <1>2 DEF Crash
  <2>2. PullInv'
    BY <2>1 DEF PullInv, Selected, Blob, IdlePull
  <2> QED
    BY <1>1, <2>2
<1>3. CASE ~Crash /\ ((\E b \in Builders : Import(b)) \/ Environment)
  <2>1. builds \subseteq builds' /\ \A d \in Layers : cache'[d] \in {cache[d], None, d}
    BY <1>3, StoreGrows
  <2>2. UNCHANGED pull
    BY <1>3 DEF Import, ScanSource, DenyIntake, StartImport, CopyFails, CopyLayer,
       ValidateInPlace, DigestInPlace, LinkNew, LinkExists, AdoptExisting, Recheck, Inspect,
       InspectFails, Decide, SaveScan, CommitBuild, CommitFails, SaveRecord,
       Environment, Abort, EditTree, AddVex, ArtifactExpires, SweepRemove
  <2> QED
    BY <1>1, <2>1, <2>2, PullFrame
<1> QED
  BY <1>1, <1>2, <1>3, RequestSelected, ServeSelected DEF Next

LEMMA InitInv ==
    ASSUME Init
    PROVE  IInv /\ PullInv
<1>1. IdlePull \in Pull
  BY DEF IdlePull, Pull
<1>2. \A r \in Recipes : tree[r] \in Tree
  BY MaterializationAssumption DEF Init
<1>3. tree \in [Recipes -> Tree]
  BY <1>2 DEF Init
<1>4. vex \in [Recipes -> Seq(Statements)]
  BY DEF Init
<1>5. TypeOK
  BY <1>1, <1>3, <1>4, IdleJobType DEF Init, TypeOK
<1>6. \A b \in Builders : Gathered(b) /\ FileIntact(b) /\ ~Pending(b)
  BY DEF Init, Gathered, FileIntact, Pending, IdleJob
<1>7. FreshIds
  BY <1>6 DEF Init, FreshIds
<1>8. PullInv
  BY DEF Init, PullInv, Selected, Blob, IdlePull
<1> QED
  BY <1>5, <1>6, <1>7, <1>8 DEF Init, IInv

LEMMA InvariantStep ==
    ASSUME IInv, PullInv, [Next]_vars
    PROVE  IInv' /\ PullInv'
<1>1. CASE Next
  BY <1>1, NextStep
<1>2. CASE UNCHANGED vars
  <2>1. TypeOK'
    BY <1>2 DEF vars, IInv, TypeOK
  <2>2. IInv'
    BY <1>2, <2>1, OutsideStep DEF vars
  <2>3. PullInv'
    BY <1>2, PullFrame DEF vars
  <2> QED
    BY <2>2, <2>3
<1> QED
  BY <1>1, <1>2

-----------------------------------------------------------------------------
(***************************************************************************)
(* The theorems.                                                           *)
(***************************************************************************)

\* The inductive invariant holds in every behaviour of the registry.
THEOREM Invariance == Spec => [](IInv /\ PullInv)
<1>1. Init => IInv /\ PullInv
  BY InitInv
<1>2. IInv /\ PullInv /\ [Next]_vars => IInv' /\ PullInv'
  BY InvariantStep
<1> QED
  BY <1>1, <1>2, PTL DEF Spec

\* Every variable keeps its type, in particular the ids, cached contents and handler states.
THEOREM TypeCorrect == Spec => []TypeOK
<1>1. IInv /\ PullInv => TypeOK
  BY DEF IInv
<1> QED
  BY <1>1, Invariance, PTL

\* The scan that stands under an id is the only one.
LEMMA UniqueScan ==
    ASSUME IInv, NEW s \in scans
    PROVE  StoredScan(s.recipe_digest, s.id) = s
<1> DEFINE found == {t \in scans : t.recipe_digest = s.recipe_digest /\ t.id = s.id}
<1>1. found = {s}
  BY DEF IInv, FreshIds
<1>2. (CHOOSE t \in found : TRUE) = s
  BY <1>1
<1> QED
  BY <1>1, <1>2 DEF StoredScan

\* A succeeded import carries its whole chain of evidence (create_build, save_build_with_scan).
THEOREM EvidenceIsBound == Spec => []EvidenceBound
<1>1. IInv /\ PullInv => EvidenceBound
  <2> SUFFICES ASSUME IInv, NEW b \in builds, b.status = "succeeded"
               PROVE  /\ b.artifact # None
                      /\ b.source_scan_digest \in scans
                      /\ b.source_scan_digest.id = b.source_scan_id
                      /\ b.source_scan_digest.declared_artifact_digest = b.artifact.digest
                      /\ b.artifact.retained =>
                            /\ b.policy_decision # None
                            /\ Inspection(b) # None
                            /\ Inspection(b).layers = {b.artifact.digest}
                            /\ Inspection(b).filesystem_digest = [layer |-> b.artifact.digest]
    BY DEF EvidenceBound
  <2>1. RecordBacked(b)
    BY DEF IInv
  <2>2. ASSUME b.artifact.retained, b.artifact # None
        PROVE  /\ Inspection(b) # None
               /\ Inspection(b).layers = {b.artifact.digest}
               /\ Inspection(b).filesystem_digest = [layer |-> b.artifact.digest]
    <3>1. PICK s \in scans : /\ s.id = b.artifact_scan_id
                             /\ s.recipe_digest = b.recipe_digest
                             /\ s.layers = {b.artifact.digest}
                             /\ s.filesystem_digest = [layer |-> b.artifact.digest]
      BY <2>1, <2>2 DEF RecordBacked
    <3>2. Inspection(b) = s
      BY <3>1, UniqueScan DEF Inspection
    <3>3. s \in Scan
      BY DEF IInv, TypeOK
    <3> QED
      BY <3>1, <3>2, <3>3, NoneAssumption
  <2> QED
    BY <2>1, <2>2 DEF RecordBacked
<1> QED
  BY <1>1, Invariance, PTL

\* Streamed bytes are those of the wanted digest, and were inspected (oci_blob_response).
THEOREM ServedBytes == Spec => []ServedBytesWereScanned
<1>1. IInv /\ PullInv => ServedBytesWereScanned
  <2> SUFFICES ASSUME IInv, PullInv, NEW p \in Pullers, Streaming(p)
               PROVE  /\ pull[p].bytes = pull[p].want
                      /\ \E s \in scans :
                            /\ s.recipe_digest = pull[p].recipe
                            /\ s.id = pull[p].layer.artifact_scan_id
                            /\ s.filesystem_digest = [layer |-> pull[p].bytes]
    BY DEF ServedBytesWereScanned
  <2>1. Selected(p) /\ Blob(p) /\ pull[p].pc = "served"
    BY DEF PullInv, Streaming, Blob
  <2>2. pull[p].layer \in builds /\ pull[p].layer.artifact \in ArtifactRef
    BY <2>1 DEF Selected
  <2>3. RecordBacked(pull[p].layer) /\ pull[p].layer.artifact # None
    BY <2>2, NoneAssumption DEF IInv
  <2> QED
    BY <2>1, <2>3 DEF Selected, RecordBacked
<1> QED
  BY <1>1, Invariance, PTL

-----------------------------------------------------------------------------
(***************************************************************************)
(* What the refinement needs beyond that invariant.                        *)
(***************************************************************************)

\* execute_build has begun: the handler has the stamp its record will carry.
Started(b) == job[b].pc \notin {"idle", "scan", "intake"}

\* A stamp is drawn once; the record of a handler that is under way will be the only one
\* with the stamp of that handler.
Stamped ==
    /\ \A r \in builds : r.id = r.created_at /\ r.id < clock
    /\ \A r, s \in builds : r.id = s.id => r = s
    /\ \A b \in Builders : Started(b) => job[b].started < clock
    /\ \A b \in Builders : Started(b) => \A r \in builds : r.id # job[b].started
    /\ \A b, c \in Builders :
          Started(b) /\ Started(c) /\ job[b].started = job[c].started => b = c

\* The source scan a record cites is on file as the record digested it.
CitesFiled ==
    \A r \in builds : r.source_scan_id # None =>
        /\ r.source_scan_digest \in scans
        /\ r.source_scan_digest.id = r.source_scan_id
        /\ r.source_scan_digest.recipe_digest = r.recipe_digest
        /\ r.source_scan_digest.mode = "source"

\* A reader has no bytes before it opens the file.
QuietUntilServed == \A p \in Pullers : pull[p].pc # "served" => pull[p].bytes = None

LedgerInv == IInv /\ PullInv /\ Stamped /\ CitesFiled /\ QuietUntilServed

-----------------------------------------------------------------------------
(***************************************************************************)
(* Preservation.                                                           *)
(***************************************************************************)

\* Handlers other than b do not move and at most the record e is added, under a stamp drawn
\* in this step or under that of b, which ends with it.
LEMMA StampStep ==
    ASSUME TypeOK, Stamped, NEW b \in Builders, NEW e,
           clock' \in Nat, clock' >= clock,
           \A c \in Builders : c # b => job'[c] = job[c],
           Started(b)' => \/ Started(b) /\ job'[b].started = job[b].started
                          \/ job'[b].started = clock /\ clock' > clock /\ builds' = builds,
           \/ builds' = builds
           \/ /\ builds' = builds \cup {e}
              /\ e.id = e.created_at
              /\ \/ e.id = clock /\ clock' > clock
                 \/ Started(b) /\ ~Started(b)' /\ e.id = job[b].started
    PROVE  Stamped'
<1>1. /\ clock \in Nat
      /\ \A r \in builds : r.id \in Nat
      /\ \A c \in Builders : job[c].started \in Nat
  BY DEF TypeOK, BuildRecord, Job
<1>2. \A c \in Builders : Started(c)' =>
         \/ Started(c) /\ job'[c].started = job[c].started
         \/ c = b /\ job'[c].started = clock /\ clock' > clock /\ builds' = builds
  BY DEF Started
<1>3. \A r \in builds' : r.id = r.created_at /\ r.id < clock'
  BY <1>1 DEF Stamped
<1>4. \A r, s \in builds' : r.id = s.id => r = s
  BY <1>1 DEF Stamped
<1>5. \A c \in Builders : Started(c)' => job'[c].started < clock'
  BY <1>1, <1>2 DEF Stamped
<1>6. \A c \in Builders : Started(c)' => \A r \in builds' : r.id # job'[c].started
  <2> SUFFICES ASSUME NEW c \in Builders, Started(c)', NEW r \in builds'
               PROVE  r.id # job'[c].started
    OBVIOUS
  <2>1. CASE r \in builds
    BY <1>1, <1>2, <2>1 DEF Stamped
  <2>2. CASE r \notin builds
    <3>1. /\ r = e /\ builds' # builds
          /\ Started(c) /\ job'[c].started = job[c].started
      BY <1>2, <2>2
    <3>2. CASE e.id = clock
      BY <1>1, <3>1, <3>2 DEF Stamped
    <3>3. CASE Started(b) /\ ~Started(b)' /\ e.id = job[b].started
      BY <3>1, <3>3 DEF Stamped
    <3> QED
      BY <3>1, <3>2, <3>3
  <2> QED
    BY <2>1, <2>2
<1>7. \A c, d \in Builders :
         Started(c)' /\ Started(d)' /\ job'[c].started = job'[d].started => c = d
  BY <1>1, <1>2 DEF Stamped
<1> QED
  BY <1>3, <1>4, <1>5, <1>6, <1>7 DEF Stamped

\* An import step keeps what the refinement needs of the records.
LEMMA ImportLedger ==
    ASSUME LedgerInv, NEW b \in Builders, Import(b)
    PROVE  Stamped' /\ CitesFiled'
<1>1. /\ TypeOK /\ Stamped /\ CitesFiled /\ clock \in Nat
      /\ Gathered(b) /\ job \in [Builders -> Job] /\ job[b] \in Job
  BY DEF LedgerInv, IInv, TypeOK
<1>2. \A j : job' = [job EXCEPT ![b] = j] =>
         job'[b] = j /\ \A c \in Builders : c # b => job'[c] = job[c]
  BY <1>1
<1>3. job' = Abandon(b) => ~Started(b)' /\ \A c \in Builders : c # b => job'[c] = job[c]
  BY <1>1 DEF Abandon, Started, IdleJob
<1>4. CASE DenyIntake(b)
  <2> DEFINE e == Record([job[b] EXCEPT !.decision = "denied"], clock, "failed", None)
  <2>1. /\ builds' = builds \cup {e} /\ clock' = clock + 1 /\ scans' = scans
        /\ job' = Abandon(b) /\ job[b].pc = "intake"
    BY <1>4 DEF DenyIntake, Stamp, Step
  <2>2. /\ e.id = clock /\ e.created_at = clock
        /\ e.source_scan_id = job[b].source.id /\ e.source_scan_digest = job[b].source
        /\ e.recipe_digest = job[b].recipe
    BY <1>1 DEF Record, Job
  <2> HIDE DEF e
  <2>3. Stamped'
    BY <1>1, <1>3, <2>1, <2>2, StampStep
  <2>4. CitesFiled'
    BY <1>1, <2>1, <2>2 DEF CitesFiled, Gathered
  <2> QED
    BY <2>3, <2>4
<1>5. CASE CommitBuild(b) \/ SaveRecord(b)
  <2>1. PICK status, id :
           /\ builds' = builds \cup {Record(job[b], job[b].started, status, id)}
           /\ UNCHANGED <<scans, clock>> /\ job' = Abandon(b)
           /\ job[b].pc \in {"commit", "record"}
    BY <1>5 DEF CommitBuild, SaveRecord, Step
  <2> DEFINE e == Record(job[b], job[b].started, status, id)
  <2>2. /\ e.id = job[b].started /\ e.created_at = job[b].started
        /\ e.source_scan_id = job[b].source.id /\ e.source_scan_digest = job[b].source
        /\ e.recipe_digest = job[b].recipe
    BY DEF Record
  <2>3. builds' = builds \cup {e}
    BY <2>1
  <2>4. Started(b)
    BY <2>1 DEF Started
  <2> HIDE DEF e
  <2>5. Stamped'
    BY <1>1, <1>3, <2>1, <2>2, <2>3, <2>4, StampStep
  <2>6. CitesFiled'
    BY <1>1, <2>1, <2>2, <2>3 DEF CitesFiled, Gathered
  <2> QED
    BY <2>5, <2>6
<1>6. CASE ~DenyIntake(b) /\ ~CommitBuild(b) /\ ~SaveRecord(b)
  <2>1. UNCHANGED builds
    BY <1>6 DEF Import, ScanSource, StartImport, CopyFails, CopyLayer, ValidateInPlace,
       DigestInPlace, LinkNew, LinkExists, AdoptExisting, Recheck, Inspect, InspectFails,
       Decide, SaveScan, CommitFails
  <2>2. clock' \in Nat /\ clock' >= clock
    BY <1>1, <1>6 DEF Import, ScanSource, StartImport, CopyFails, CopyLayer, ValidateInPlace,
       DigestInPlace, LinkNew, LinkExists, AdoptExisting, Recheck, Inspect, InspectFails,
       Decide, SaveScan, CommitFails, Stamp
  <2>3. \A c \in Builders : c # b => job'[c] = job[c]
    BY <1>1, <1>6 DEF Import, ScanSource, StartImport, CopyFails, CopyLayer, ValidateInPlace,
       DigestInPlace, LinkNew, LinkExists, AdoptExisting, Recheck, Inspect, InspectFails,
       Decide, SaveScan, CommitFails, Goto, Abandon
  <2>4. \/ ~Started(b)'
        \/ Started(b) /\ job'[b].started = job[b].started
        \/ job'[b].started = clock /\ clock' > clock
    <3>1. CASE ScanSource(b)
      BY <1>1, <3>1 DEF ScanSource, Started
    <3>2. CASE StartImport(b)
      BY <1>1, <3>2 DEF StartImport, Stamp, Job
    <3>3. CASE job' = Abandon(b)
      BY <1>3, <3>3
    <3>4. CASE ~ScanSource(b) /\ ~StartImport(b) /\ job' # Abandon(b)
      <4>1. Started(b)
        BY <1>6, <3>4 DEF Import, CopyFails, CopyLayer, ValidateInPlace, DigestInPlace,
           LinkNew, LinkExists, AdoptExisting, Recheck, Inspect, InspectFails, Decide,
           SaveScan, CommitFails, Step, Started
      <4>2. job'[b].started = job[b].started
        BY <1>1, <1>6, <3>4 DEF Import, CopyFails, CopyLayer, ValidateInPlace, DigestInPlace,
           LinkNew, LinkExists, AdoptExisting, Recheck, Inspect, InspectFails, Decide,
           SaveScan, CommitFails, Goto, Job
      <4> QED
        BY <4>1, <4>2
    <3> QED
      BY <3>1, <3>2, <3>3, <3>4
  <2>5. Stamped'
    BY <1>1, <2>1, <2>2, <2>3, <2>4, StampStep
  <2>6. \A s \in scans : s \in scans' \/ s.mode = "filesystem"
    BY <1>1, <1>6 DEF Import, ScanSource, StartImport, CopyFails, CopyLayer, ValidateInPlace,
       DigestInPlace, LinkNew, LinkExists, AdoptExisting, Recheck, Inspect, InspectFails,
       Decide, SaveScan, CommitFails, Step, Gathered, Pending
  <2>7. CitesFiled'
    BY <1>1, <2>1, <2>6 DEF CitesFiled
  <2> QED
    BY <2>5, <2>7
<1> QED
  BY <1>4, <1>5, <1>6

\* So does everything else.
LEMMA OtherLedger ==
    ASSUME LedgerInv, [Next]_vars, \A b \in Builders : ~Import(b)
    PROVE  Stamped' /\ CitesFiled'
<1>1. /\ TypeOK /\ Stamped /\ CitesFiled /\ clock \in Nat
      /\ job \in [Builders -> Job]
  BY DEF LedgerInv, IInv, TypeOK
<1>2. ASSUME NEW b \in Builders, NEW r \in Recipes, PlanBuild(b, r)
      PROVE  Stamped' /\ CitesFiled'
  <2> DEFINE e == [id |-> clock, recipe_digest |-> r, status |-> "planned",
                   created_at |-> clock, timestamped |-> FALSE, source_scan_id |-> None,
                   source_scan_digest |-> None, artifact_scan_id |-> None,
                   artifact |-> None, policy_decision |-> None]
  <2>1. /\ builds' = builds \cup {e} /\ clock' = clock + 1 /\ UNCHANGED <<scans, job>>
    BY <1>2 DEF PlanBuild, Stamp
  <2>2. e.id = clock /\ e.created_at = clock /\ e.source_scan_id = None
    OBVIOUS
  <2> HIDE DEF e
  <2>3. Started(b)' => Started(b) /\ job'[b].started = job[b].started
    BY <2>1 DEF Started
  <2>4. (\/ builds' = builds
         \/ /\ builds' = builds \cup {e}
            /\ e.id = e.created_at
            /\ \/ e.id = clock /\ clock' > clock
               \/ Started(b) /\ ~Started(b)' /\ e.id = job[b].started)
    BY <1>1, <2>1, <2>2
  <2>5. Stamped'
    BY <1>1, <2>1, <2>3, <2>4, StampStep
  <2>6. CitesFiled'
    BY <1>1, <2>1, <2>2 DEF CitesFiled
  <2> QED
    BY <2>5, <2>6
<1>3. ASSUME UNCHANGED <<builds, scans, clock>>,
             \A c \in Builders : ~Started(c)' \/ job'[c] = job[c]
      PROVE  Stamped' /\ CitesFiled'
  BY <1>1, <1>3 DEF Stamped, CitesFiled, Started
<1>4. ASSUME NEW b \in Builders, NEW r \in Recipes, NEW c \in BOOLEAN, StartBuild(b, r, c)
      PROVE  Stamped' /\ CitesFiled'
  <2>1. \A d \in Builders : ~Started(d)' \/ job'[d] = job[d]
    BY <1>1, <1>4 DEF StartBuild, Started, IdleJob
  <2>2. UNCHANGED <<builds, scans, clock>>
    BY <1>4 DEF StartBuild
  <2> QED
    BY <1>3, <2>1, <2>2
<1>5. CASE UNCHANGED <<builds, scans, clock, job>>
  BY <1>3, <1>5
<1>6. ASSUME NEW b \in Builders, Abort(b)
      PROVE  Stamped' /\ CitesFiled'
  <2>1. \A d \in Builders : ~Started(d)' \/ job'[d] = job[d]
    BY <1>1, <1>6 DEF Abort, Abandon, Started, IdleJob
  <2>2. UNCHANGED <<builds, scans, clock>>
    BY <1>6 DEF Abort
  <2> QED
    BY <1>3, <2>1, <2>2
<1>7. CASE Crash
  <2>1. \A d \in Builders : ~Started(d)'
    BY <1>7 DEF Crash, Started, IdleJob
  <2>2. UNCHANGED <<builds, scans, clock>>
    BY <1>7 DEF Crash
  <2> QED
    BY <1>3, <2>1, <2>2
<1>8. CASE Request
  <2>1. ASSUME NEW p \in Pullers, \/ \E r \in Recipes : ManifestStart(p, r)
                                  \/ \E d \in Layers : BlobStart(p, d)
        PROVE  UNCHANGED <<builds, scans, clock, job>>
    BY <2>1 DEF ManifestStart, BlobStart
  <2> QED
    BY <1>2, <1>4, <1>5, <1>8, <2>1 DEF Request
<1>9. CASE \E p \in Pullers : Serve(p)
  <2>1. UNCHANGED <<builds, scans, clock, job>>
    BY <1>9 DEF Serve, SelectLayer, VerifyLayer, ReadEvidence, Judge, OpenBlob, EndPull
  <2> QED
    BY <1>5, <2>1
<1>10. CASE Environment
  <2>1. CASE \E b \in Builders : Abort(b)
    BY <1>6, <2>1
  <2>2. CASE ~Crash /\ ~\E b \in Builders : Abort(b)
    <3>1. UNCHANGED <<builds, scans, clock, job>>
      BY <1>10, <2>2 DEF Environment, EditTree, AddVex, ArtifactExpires, SweepRemove
    <3> QED
      BY <1>5, <3>1
  <2> QED
    BY <1>7, <2>1, <2>2
<1>11. CASE UNCHANGED vars
  BY <1>5, <1>11 DEF vars
<1> QED
  BY <1>8, <1>9, <1>10, <1>11 DEF Next

\* Only opening a blob gives a reader bytes.
LEMMA StreamsStep ==
    ASSUME LedgerInv, [Next]_vars
    PROVE  \/ \A p \in Pullers : pull'[p].bytes \in {None, pull[p].bytes}
           \/ \E p \in Pullers : /\ OpenBlob(p)
                                 /\ pull' # Answer(p)
<1>1. pull \in [Pullers -> Pull] /\ (\A p \in Pullers : pull[p] \in Pull)
  BY DEF LedgerInv, IInv, TypeOK
<1>2. ASSUME NEW p \in Pullers, NEW q, pull' = [pull EXCEPT ![p] = q],
             q.bytes \in {None, pull[p].bytes}
      PROVE  \A o \in Pullers : pull'[o].bytes \in {None, pull[o].bytes}
  BY <1>1, <1>2
<1>3. IdlePull.bytes = None
  BY DEF IdlePull
<1>4. ASSUME NEW p \in Pullers, pull' = Answer(p) \/ pull' = NoLayer(p)
      PROVE  \A o \in Pullers : pull'[o].bytes \in {None, pull[o].bytes}
  BY <1>1, <1>3, <1>4 DEF Answer, NoLayer, Pull
<1>5. ASSUME NEW p \in Pullers, Serve(p), ~(OpenBlob(p) /\ pull' # Answer(p))
      PROVE  \A o \in Pullers : pull'[o].bytes \in {None, pull[o].bytes}
  <2>1. CASE SelectLayer(p)
    <3>1. ASSUME NEW r, Select(p, r)
          PROVE  \A o \in Pullers : pull'[o].bytes \in {None, pull[o].bytes}
      <4>1. CASE HasLayerToServe(latest_build_evidence(r))
        BY <1>1, <3>1, <4>1 DEF Select, Pull
      <4>2. CASE ~HasLayerToServe(latest_build_evidence(r)) /\ pull[p].kind = "manifest"
        BY <1>4, <3>1, <4>2 DEF Select
      <4>3. CASE ~HasLayerToServe(latest_build_evidence(r)) /\ pull[p].kind # "manifest"
        BY <1>1, <3>1, <4>3 DEF Select, Pull
      <4> QED
        BY <4>1, <4>2, <4>3
    <3> QED
      BY <1>4, <2>1, <3>1 DEF SelectLayer
  <2>2. CASE VerifyLayer(p)
    BY <1>1, <1>4, <2>2 DEF VerifyLayer, Pull
  <2>3. CASE ReadEvidence(p)
    BY <1>1, <2>3 DEF ReadEvidence, Pull
  <2>4. CASE Judge(p)
    BY <1>1, <1>4, <2>4 DEF Judge, Pull
  <2>5. CASE OpenBlob(p) \/ EndPull(p)
    BY <1>4, <1>5, <2>5 DEF EndPull
  <2> QED
    BY <1>5, <2>1, <2>2, <2>3, <2>4, <2>5 DEF Serve
<1>6. ASSUME NEW p \in Pullers, \/ \E r \in Recipes : ManifestStart(p, r)
                                \/ \E d \in Layers : BlobStart(p, d)
      PROVE  \A o \in Pullers : pull'[o].bytes \in {None, pull[o].bytes}
  BY <1>1, <1>6 DEF ManifestStart, BlobStart, IdlePull
<1>7. CASE UNCHANGED pull
  BY <1>7
<1>8. CASE Crash
  BY <1>8 DEF Crash, IdlePull
<1>9. CASE Request
  <2>1. (\E b \in Builders, r \in Recipes :
            PlanBuild(b, r) \/ \E c \in BOOLEAN : StartBuild(b, r, c)) => UNCHANGED pull
    BY DEF PlanBuild, StartBuild
  <2> QED
    BY <1>6, <1>7, <1>9, <2>1 DEF Request
<1>10. CASE \E b \in Builders : Import(b)
  <2>1. UNCHANGED pull
    BY <1>10 DEF Import, ScanSource, DenyIntake, StartImport, CopyFails, CopyLayer,
       ValidateInPlace, DigestInPlace, LinkNew, LinkExists, AdoptExisting, Recheck, Inspect,
       InspectFails, Decide, SaveScan, CommitBuild, CommitFails, SaveRecord
  <2> QED
    BY <1>7, <2>1
<1>11. CASE Environment
  <2>1. CASE ~Crash
    <3>1. UNCHANGED pull
      BY <1>11, <2>1 DEF Environment, Abort, EditTree, AddVex, ArtifactExpires, SweepRemove
    <3> QED
      BY <1>7, <3>1
  <2> QED
    BY <1>8, <2>1
<1>12. CASE UNCHANGED vars
  BY <1>7, <1>12 DEF vars
<1> QED
  BY <1>5, <1>9, <1>10, <1>11, <1>12 DEF Next

-----------------------------------------------------------------------------
(***************************************************************************)
(* Every step is a step of the ledger, or none.                            *)
(***************************************************************************)

\* The bytes a blob request opens are vouched for by the record it selected.
LEMMA OpenStreams ==
    ASSUME LedgerInv, NEW p \in Pullers, OpenBlob(p), pull' # Answer(p)
    PROVE  Ledger!Stream(p) /\ (\A o \in Pullers : pull'[o].pc # "served" => pull'[o].bytes = None)
<1> DEFINE digest == pull[p].layer.artifact.digest
           q == [pull[p] EXCEPT !.pc = "served", !.bytes = cache[digest]]
<1>1. /\ pull \in [Pullers -> Pull] /\ pull[p] \in Pull
      /\ Selected(p) /\ QuietUntilServed /\ IInv
  BY DEF LedgerInv, PullInv, IInv, TypeOK
<1>2. /\ pull' = [pull EXCEPT ![p] = q] /\ cache[digest] # None
      /\ pull[p].pc = "open" /\ UNCHANGED <<scans, builds>>
  BY DEF OpenBlob, At
<1>3. /\ Blob(p) /\ pull[p].layer \in builds
      /\ pull[p].layer.status = "succeeded" /\ pull[p].layer.artifact \in ArtifactRef
      /\ pull[p].layer.artifact.retained
      /\ digest = pull[p].want /\ cache[digest] = digest /\ digest # None
  BY <1>1, <1>2, NoneAssumption DEF Selected, Blob, ArtifactRef
<1>4. RecordBacked(pull[p].layer) /\ pull[p].layer.artifact # None
  BY <1>1, <1>3, NoneAssumption DEF IInv
<1>5. Ledger!Vouches(pull[p].layer, digest)
  BY <1>3, <1>4 DEF RecordBacked, Ledger!Vouches, Ledger!SameRecipe
<1>6. q.bytes = digest /\ q.pc = "served"
  BY <1>1, <1>3 DEF Pull
<1>7. pull[p].bytes = None
  BY <1>1, <1>2 DEF QuietUntilServed
<1> HIDE DEF q, digest
<1>8. /\ pull'[p] = q
      /\ \A o \in Pullers : o # p => pull'[o] = pull[o]
  BY <1>1, <1>2
<1>9. [o \in Pullers |-> pull'[o].bytes] =
         [[o \in Pullers |-> pull[o].bytes] EXCEPT ![p] = digest]
  BY <1>6, <1>8
<1>10. Ledger!Stream(p)
  BY <1>2, <1>3, <1>5, <1>6, <1>7, <1>8, <1>9 DEF Ledger!Stream
<1> QED
  BY <1>1, <1>6, <1>8, <1>10 DEF QuietUntilServed

\* A step that leaves scans and records alone streams what a record vouches for, or stops.
LEMMA ReadersImplement ==
    ASSUME LedgerInv, [Next]_vars, UNCHANGED <<scans, builds>>
    PROVE  (\E p \in Pullers : Ledger!Stream(p)) \/ Ledger!Stop
<1>1. CASE \E p \in Pullers : OpenBlob(p) /\ pull' # Answer(p)
  BY <1>1, OpenStreams
<1>2. CASE \A p \in Pullers : pull'[p].bytes \in {None, pull[p].bytes}
  BY <1>2 DEF Ledger!Stop
<1> QED
  BY <1>1, <1>2, StreamsStep

\* A response that is being streamed ends or goes on.
LEMMA ServedStays ==
    ASSUME LedgerInv, [Next]_vars, NEW p \in Pullers, pull[p].pc = "served"
    PROVE  pull'[p] \in {pull[p], IdlePull}
<1>1. pull \in [Pullers -> Pull]
  BY DEF LedgerInv, IInv, TypeOK
<1>2. ASSUME NEW o \in Pullers, Serve(o)
      PROVE  pull'[p] \in {pull[p], IdlePull}
  <2>1. CASE o = p
    <3>1. EndPull(p)
      BY <1>2, <2>1 DEF Serve, SelectLayer, VerifyLayer, ReadEvidence, Judge, OpenBlob, At
    <3> QED
      BY <1>1, <3>1 DEF EndPull, Answer
  <2>2. CASE o # p
    <3>1. \A r : Select(o, r) => pull'[p] = pull[p]
      BY <1>1, <2>2 DEF Select, Answer
    <3>2. pull' = Answer(o) \/ pull' = NoLayer(o) => pull'[p] = pull[p]
      BY <1>1, <2>2 DEF Answer, NoLayer
    <3> QED
      BY <1>1, <1>2, <2>2, <3>1, <3>2 DEF Serve, SelectLayer, VerifyLayer, ReadEvidence, Judge,
         OpenBlob, EndPull
  <2> QED
    BY <2>1, <2>2
<1>3. CASE UNCHANGED pull
  BY <1>3
<1>4. CASE Crash
  BY <1>4 DEF Crash
<1>5. CASE Request
  <2>1. (\E b \in Builders, r \in Recipes :
            PlanBuild(b, r) \/ \E c \in BOOLEAN : StartBuild(b, r, c)) => UNCHANGED pull
    BY DEF PlanBuild, StartBuild
  <2>2. ASSUME NEW o \in Pullers, \/ \E r \in Recipes : ManifestStart(o, r)
                                  \/ \E d \in Layers : BlobStart(o, d)
        PROVE  pull'[p] = pull[p]
    BY <1>1, <2>2 DEF ManifestStart, BlobStart, At
  <2> QED
    BY <1>3, <1>5, <2>1, <2>2 DEF Request
<1>6. CASE \E b \in Builders : Import(b)
  <2>1. UNCHANGED pull
    BY <1>6 DEF Import, ScanSource, DenyIntake, StartImport, CopyFails, CopyLayer,
       ValidateInPlace, DigestInPlace, LinkNew, LinkExists, AdoptExisting, Recheck, Inspect,
       InspectFails, Decide, SaveScan, CommitBuild, CommitFails, SaveRecord
  <2> QED
    BY <1>3, <2>1
<1>7. CASE Environment /\ ~Crash
  <2>1. UNCHANGED pull
    BY <1>7 DEF Environment, Abort, EditTree, AddVex, ArtifactExpires, SweepRemove
  <2> QED
    BY <1>3, <2>1
<1>8. CASE UNCHANGED vars
  BY <1>3, <1>8 DEF vars
<1> QED
  BY <1>2, <1>4, <1>5, <1>6, <1>7, <1>8 DEF Next

LEMMA LedgerInvStep ==
    ASSUME LedgerInv, [Next]_vars
    PROVE  LedgerInv'
<1>1. IInv' /\ PullInv'
  BY InvariantStep DEF LedgerInv
<1>2. Stamped' /\ CitesFiled'
  BY ImportLedger, OtherLedger
<1>3. QuietUntilServed'
  <2>1. CASE \E p \in Pullers : OpenBlob(p) /\ pull' # Answer(p)
    BY <2>1, OpenStreams DEF QuietUntilServed
  <2>2. CASE \A p \in Pullers : pull'[p].bytes \in {None, pull[p].bytes}
    <3> SUFFICES ASSUME NEW p \in Pullers, pull'[p].pc # "served"
                 PROVE  pull'[p].bytes = None
      BY DEF QuietUntilServed
    <3>1. CASE pull[p].pc = "served"
      <4>1. pull'[p] = IdlePull
        BY <3>1, ServedStays
      <4> QED
        BY <4>1 DEF IdlePull
    <3>2. CASE pull[p].pc # "served"
      BY <2>2, <3>2 DEF LedgerInv, QuietUntilServed
    <3> QED
      BY <3>1, <3>2
  <2> QED
    BY <2>1, <2>2, StreamsStep
<1> QED
  BY <1>1, <1>2, <1>3 DEF LedgerInv

LEMMA LedgerInit ==
    ASSUME Init
    PROVE  LedgerInv
<1>1. IInv /\ PullInv
  BY InitInv
<1>2. Stamped /\ CitesFiled
  BY DEF Init, Stamped, CitesFiled, Started, IdleJob
<1>3. QuietUntilServed
  BY DEF Init, IdlePull, QuietUntilServed
<1> QED
  BY <1>1, <1>2, <1>3 DEF LedgerInv

\* An import step files a scan, appends a record, withdraws a scan that nothing cites, or
\* does nothing the ledger can see.
LEMMA ImportImplements ==
    ASSUME LedgerInv, NEW b \in Builders, Import(b)
    PROVE  \/ Ledger!File \/ Ledger!Append \/ Ledger!Withdraw
           \/ UNCHANGED <<scans, builds>>
<1>1. /\ TypeOK /\ FreshIds /\ Stamped /\ CitesFiled /\ Gathered(b) /\ clock \in Nat
      /\ job[b] \in Job /\ (\A s \in scans : s \in Scan)
  BY DEF LedgerInv, IInv, TypeOK
<1>2. UNCHANGED pull
  BY DEF Import, ScanSource, DenyIntake, StartImport, CopyFails, CopyLayer,
     ValidateInPlace, DigestInPlace, LinkNew, LinkExists, AdoptExisting, Recheck, Inspect,
     InspectFails, Decide, SaveScan, CommitBuild, CommitFails, SaveRecord
<1>3. CASE ScanSource(b)
  <2> DEFINE x == SourceScan(job[b].recipe)
  <2>1. scans' = scans \cup {x} /\ UNCHANGED builds
    BY <1>3 DEF ScanSource
  <2>2. x.id = clock
    BY DEF SourceScan
  <2> HIDE DEF x
  <2>3. \A y \in scans : y.id # x.id
    BY <1>1, <2>2 DEF FreshIds, Scan
  <2> QED
    BY <1>2, <2>1, <2>3 DEF Ledger!File
<1>4. CASE SaveScan(b)
  <2>1. scans' = scans \cup {job[b].scan} /\ UNCHANGED builds /\ Pending(b)
    BY <1>4 DEF SaveScan, Step, Pending
  <2>2. CASE job[b].scan \in scans
    BY <2>1, <2>2
  <2>3. CASE job[b].scan \notin scans
    <3>1. \A y \in scans : y.id # job[b].scan.id
      BY <1>1, <2>1, <2>3 DEF FreshIds
    <3> QED
      BY <1>2, <2>1, <3>1 DEF Ledger!File
  <2> QED
    BY <2>2, <2>3
<1>5. CASE CommitFails(b)
  <2> DEFINE x == job[b].scan
  <2>1. /\ scans' \in {scans, scans \ {x}} /\ UNCHANGED builds
        /\ Pending(b) /\ x \in scans /\ x.mode = "filesystem"
    BY <1>1, <1>5 DEF CommitFails, Step, Gathered, Pending
  <2>2. \A e \in builds : x.id # e.artifact_scan_id
    BY <1>1, <2>1 DEF FreshIds
  <2>3. \A e \in builds : x.id # e.source_scan_id
    BY <1>1, <2>1, NoneAssumption DEF FreshIds, CitesFiled, Scan
  <2>4. \A e \in builds : ~Ledger!Cites(e, x)
    BY <2>2, <2>3 DEF Ledger!Cites
  <2> QED
    BY <1>2, <2>1, <2>4 DEF Ledger!Withdraw
<1>6. ASSUME NEW e, builds' = builds \cup {e}, UNCHANGED scans,
             \A f \in builds : f.id # e.id,
             Ledger!OnFile(e, e.source_scan_id), Ledger!OnFile(e, e.artifact_scan_id)
      PROVE  Ledger!Append
  BY <1>2, <1>6 DEF Ledger!Append
<1>7. CASE DenyIntake(b)
  <2> DEFINE e == Record([job[b] EXCEPT !.decision = "denied"], clock, "failed", None)
  <2>1. builds' = builds \cup {e} /\ UNCHANGED scans /\ job[b].pc = "intake"
    BY <1>7 DEF DenyIntake, Step
  <2>2. /\ e.id = clock /\ e.recipe_digest = job[b].recipe
        /\ e.source_scan_id = job[b].source.id /\ e.artifact_scan_id = None
    BY <1>1 DEF Record, Job
  <2> HIDE DEF e
  <2>3. \A f \in builds : f.id # e.id
    BY <1>1, <2>2 DEF Stamped, TypeOK, BuildRecord
  <2>4. Ledger!OnFile(e, e.source_scan_id) /\ Ledger!OnFile(e, e.artifact_scan_id)
    BY <1>1, <2>1, <2>2 DEF Gathered, Ledger!OnFile, Ledger!SameRecipe
  <2> QED
    BY <1>6, <2>1, <2>3, <2>4
<1>8. CASE CommitBuild(b)
  <2> DEFINE e == Record(job[b], job[b].started, "succeeded", job[b].scan.id)
  <2>1. builds' = builds \cup {e} /\ UNCHANGED scans /\ job[b].pc = "commit"
    BY <1>8 DEF CommitBuild, Step
  <2>2. /\ e.id = job[b].started /\ e.recipe_digest = job[b].recipe
        /\ e.source_scan_id = job[b].source.id /\ e.artifact_scan_id = job[b].scan.id
    BY DEF Record
  <2> HIDE DEF e
  <2>3. \A f \in builds : f.id # e.id
    BY <1>1, <2>1, <2>2 DEF Stamped, Started
  <2>4. Ledger!OnFile(e, e.source_scan_id) /\ Ledger!OnFile(e, e.artifact_scan_id)
    BY <1>1, <2>1, <2>2 DEF Gathered, Pending, Ledger!OnFile, Ledger!SameRecipe
  <2> QED
    BY <1>6, <2>1, <2>3, <2>4
<1>9. CASE SaveRecord(b)
  <2> DEFINE e == Record(job[b], job[b].started,
                         IF job[b].artifact = None THEN "failed" ELSE "succeeded", None)
  <2>1. builds' = builds \cup {e} /\ UNCHANGED scans /\ job[b].pc = "record"
    BY <1>9 DEF SaveRecord, Step
  <2>2. /\ e.id = job[b].started /\ e.recipe_digest = job[b].recipe
        /\ e.source_scan_id = job[b].source.id /\ e.artifact_scan_id = None
    BY DEF Record
  <2> HIDE DEF e
  <2>3. \A f \in builds : f.id # e.id
    BY <1>1, <2>1, <2>2 DEF Stamped, Started
  <2>4. Ledger!OnFile(e, e.source_scan_id) /\ Ledger!OnFile(e, e.artifact_scan_id)
    BY <1>1, <2>1, <2>2 DEF Gathered, Ledger!OnFile, Ledger!SameRecipe
  <2> QED
    BY <1>6, <2>1, <2>3, <2>4
<1>10. CASE ~(\/ ScanSource(b) \/ SaveScan(b) \/ CommitFails(b) \/ DenyIntake(b)
              \/ CommitBuild(b) \/ SaveRecord(b))
  BY <1>10 DEF Import, StartImport, CopyFails, CopyLayer, ValidateInPlace, DigestInPlace,
     LinkNew, LinkExists, AdoptExisting, Recheck, Inspect, InspectFails, Decide
<1> QED
  BY <1>3, <1>4, <1>5, <1>7, <1>8, <1>9, <1>10

LEMMA StepImplements ==
    ASSUME LedgerInv, [Next]_vars
    PROVE  Ledger!Next
<1>1. CASE UNCHANGED <<scans, builds>>
  BY <1>1, ReadersImplement DEF Ledger!Next
<1>2. CASE \E b \in Builders : Import(b)
  BY <1>1, <1>2, ImportImplements DEF Ledger!Next
<1>3. ASSUME NEW b \in Builders, NEW r \in Recipes, PlanBuild(b, r)
      PROVE  Ledger!Append
  <2> DEFINE e == [id |-> clock, recipe_digest |-> r, status |-> "planned",
                   created_at |-> clock, timestamped |-> FALSE, source_scan_id |-> None,
                   source_scan_digest |-> None, artifact_scan_id |-> None,
                   artifact |-> None, policy_decision |-> None]
  <2>1. builds' = builds \cup {e} /\ UNCHANGED <<scans, pull>>
    BY <1>3 DEF PlanBuild
  <2>2. e.id = clock /\ e.source_scan_id = None /\ e.artifact_scan_id = None
    OBVIOUS
  <2> HIDE DEF e
  <2>3. \A f \in builds : f.id # e.id
    BY <2>2 DEF LedgerInv, IInv, Stamped, TypeOK, BuildRecord
  <2>4. Ledger!OnFile(e, e.source_scan_id) /\ Ledger!OnFile(e, e.artifact_scan_id)
    BY <2>2 DEF Ledger!OnFile
  <2> QED
    BY <2>1, <2>3, <2>4 DEF Ledger!Append
<1>4. CASE /\ ~UNCHANGED <<scans, builds>>
           /\ ~\E b \in Builders : Import(b)
  <2>1. \E b \in Builders, r \in Recipes : PlanBuild(b, r)
    BY <1>4 DEF Next, vars, Request, StartBuild, ManifestStart, BlobStart, Serve, SelectLayer,
       VerifyLayer, ReadEvidence, Judge, OpenBlob, EndPull, Environment, Abort, EditTree,
       AddVex, ArtifactExpires, SweepRemove, Crash
  <2> QED
    BY <1>3, <2>1 DEF Ledger!Next
<1> QED
  BY <1>1, <1>2, <1>4

-----------------------------------------------------------------------------
(***************************************************************************)
(* The theorem.                                                            *)
(***************************************************************************)

\* Records only ever appended with their scans on file, scans withdrawn only while uncited
\* and bytes streamed only if a record vouches for them (create_build,
\* save_build_with_scan, oci_blob_response): Materialization implements EvidenceLedger.
THEOREM LedgerRefinement == Spec => LedgerSpec
<1>1. Init => LedgerInv /\ Ledger!Init
  <2>1. Init => Ledger!Init
    BY DEF Init, IdlePull, Ledger!Init
  <2> QED
    BY <2>1, LedgerInit
<1>2. LedgerInv /\ [Next]_vars => LedgerInv'
  BY LedgerInvStep
<1>3. LedgerInv /\ [Next]_vars => [Ledger!Next]_(Ledger!lvars)
  BY StepImplements
<1> QED
  BY <1>1, <1>2, <1>3, PTL DEF Spec, LedgerSpec, Ledger!Spec

-----------------------------------------------------------------------------
(***************************************************************************)
(* Verdicts: the inductive invariant, on top of LedgerInv.                 *)
(***************************************************************************)
Overridable(r) == Policy[r].allow_external_vex_overrides

\* The record that the handler is about to save.
Draft(b) == Record(job[b], job[b].started, "succeeded", job[b].scan.id)

\* A handler has a verdict only while it saves its record, and a denial it has found then
\* still stands by what the store holds now.
JobVerdict(b) ==
    /\ job[b].pc \notin {"save_scan", "commit"} => job[b].decision = None
    /\ /\ job[b].pc \in {"save_scan", "commit"}
       /\ job[b].decision = "denied"
       /\ ~Overridable(job[b].recipe)
       => Denies(Policy[job[b].recipe], Draft(b), job[b].scan, vex[job[b].recipe], 0)

\* A recorded denial is one of a failed import, or stands by the scan the record names.
RecordVerdict(r) ==
    /\ r.policy_decision = "denied"
    /\ ~Overridable(r.recipe_digest)
    => \/ r.status = "failed"
       \/ \E s \in scans :
             /\ s.id = r.artifact_scan_id
             /\ s.recipe_digest = r.recipe_digest
             /\ Denies(Policy[r.recipe_digest], r, s, vex[r.recipe_digest], 0)

VerdictInv ==
    /\ \A b \in Builders : JobVerdict(b)
    /\ \A r \in builds : RecordVerdict(r)

\* What a reader knows of the record that the gate looked at.
Judged(p) ==
    /\ \/ pull[p].pc \in {"idle", "gate"}
       \/ pull[p].pc \in {"layer", "verify"} /\ pull[p].kind = "blob"
       => pull[p].gated = None
    /\ pull[p].gated # None =>
          /\ pull[p].gated \in builds
          /\ pull[p].gated.recipe_digest = pull[p].recipe
          /\ pull[p].gated.status # "planned"
    /\ pull[p].kind = "blob" /\ pull[p].pc \in {"judge", "open", "served"} =>
          /\ pull[p].gated # None
          /\ pull[p].layer.created_at <= pull[p].gated.created_at
    /\ /\ pull[p].kind = "manifest" /\ pull[p].pc \in {"verify", "served"}
       /\ pull[p].gated # None
       => pull[p].gated.created_at <= pull[p].layer.created_at
    /\ /\ pull[p].kind = "blob" /\ pull[p].pc \in {"open", "served"}
       /\ ~Overridable(pull[p].recipe)
       => pull[p].gated.policy_decision # "denied"

JudgedInv == \A p \in Pullers : Judged(p)

-----------------------------------------------------------------------------
(***************************************************************************)
(* Lemmas about the gate.                                                  *)
(***************************************************************************)

\* A statement that says affected, or that the case is open, denies as soon as it is the
\* newest of its kind, which the last one is.
LEMMA LastStatementDenies ==
    ASSUME NEW recipe, NEW build, NEW scan, NEW now, NEW v \in Seq(Statements),
           NEW s \in Statements, s.recipe_digest = recipe.digest,
           s.status \in {"affected", "under_investigation"}
    PROVE  Denies(recipe, build, scan, Append(v, s), now)
<1> DEFINE w == Append(v, s)
           last == Len(v) + 1
<1>1. /\ Len(w) = last /\ w[last] = s /\ last \in 1..Len(w)
      /\ (last + 1)..Len(w) = {}
  OBVIOUS
<1> HIDE DEF w, last
<1>2. s \in effective_vex_statements(recipe, w)
  BY <1>1 DEF effective_vex_statements
<1>3. Denies(recipe, build, scan, w, now)
  BY <1>2 DEF Denies
<1> QED
  BY <1>3 DEF w

\* The gate does not read the verdict that a record carries.
LEMMA VerdictNotRead ==
    ASSUME NEW recipe, NEW scan, NEW v, NEW now, NEW x, NEW y, x # None, y # None,
           x.recipe_digest = y.recipe_digest, x.status = y.status,
           x.timestamped = y.timestamped, x.source_scan_id = y.source_scan_id,
           x.source_scan_digest = y.source_scan_digest, x.artifact = y.artifact
    PROVE  Denies(recipe, x, scan, v, now) => Denies(recipe, y, scan, v, now)
<1>1. \A c : BuildDefect(c, recipe, x, scan) <=> BuildDefect(c, recipe, y, scan)
  BY DEF BuildDefect
<1>2. slsa_policy_findings(recipe, x, scan) = slsa_policy_findings(recipe, y, scan)
  BY <1>1 DEF slsa_policy_findings
<1>3. \A a : vex_resolves_candidate(recipe, a, v, x, now) <=>
             vex_resolves_candidate(recipe, a, v, y, now)
  BY DEF vex_resolves_candidate
<1>4. assessment_is_bound_to_artifact(scan, x) <=> assessment_is_bound_to_artifact(scan, y)
  BY DEF assessment_is_bound_to_artifact
<1>5. \A a : AssessmentDenies(recipe, a, scan, v, x, now) <=>
             AssessmentDenies(recipe, a, scan, v, y, now)
  BY <1>3, <1>4 DEF AssessmentDenies
<1> QED
  BY <1>2, <1>5 DEF Denies

\* A failed import is denied whatever else the store holds.
LEMMA FailureDenies ==
    ASSUME NEW recipe, NEW build, build # None, build.status = "failed",
           NEW scan, NEW v, NEW now
    PROVE  Denies(recipe, build, scan, v, now)
<1>1. "slsa-build-failed" \in slsa_policy_findings(recipe, build, scan)
  BY DEF slsa_policy_findings, SlsaCategories, BuildDefect
<1> QED
  BY <1>1 DEF Denies

-----------------------------------------------------------------------------
(***************************************************************************)
(* Denials stand.                                                          *)
(***************************************************************************)

\* A recipe without overrides accepts only statements that deny.
LEMMA AddVexVerdict ==
    ASSUME LedgerInv, VerdictInv, NEW r \in Recipes, NEW s \in Statements, AddVex(r, s)
    PROVE  VerdictInv'
<1>1. /\ UNCHANGED <<scans, builds, job>> /\ vex \in [Recipes -> Seq(Statements)]
      /\ vex' = [vex EXCEPT ![r] = Append(@, s)]
      /\ vex[r] \in Seq(Statements)
  BY DEF AddVex, LedgerInv, IInv, TypeOK
<1>2. ASSUME ~Overridable(r), NEW build, NEW scan
      PROVE  Denies(Policy[r], build, scan, vex'[r], 0)
  <2>1. s.recipe_digest = Policy[r].digest /\ s.status \in {"affected", "under_investigation"}
    BY <1>2, StatementAssumption DEF AddVex, AcceptsVex, Overridable
  <2>2. vex'[r] = Append(vex[r], s)
    BY <1>1
  <2> QED
    BY <1>1, <2>1, <2>2, LastStatementDenies
<1>3. \A q : q # r => vex'[q] = vex[q] \/ q \notin Recipes
  BY <1>1
<1>4. \A b \in Builders : JobVerdict(b)'
  <2> SUFFICES ASSUME NEW b \in Builders PROVE JobVerdict(b)'
    OBVIOUS
  <2>1. JobVerdict(b) /\ Gathered(b)
    BY DEF VerdictInv, LedgerInv, IInv
  <2>2. CASE job[b].recipe = r
    BY <1>1, <1>2, <2>1, <2>2 DEF JobVerdict, Draft, Overridable
  <2>3. CASE job[b].recipe # r
    <3>1. job[b].pc # "idle" => vex'[job[b].recipe] = vex[job[b].recipe]
      BY <1>3, <2>1, <2>3 DEF Gathered
    <3> QED
      BY <1>1, <2>1, <3>1 DEF JobVerdict, Draft, Overridable
  <2> QED
    BY <2>2, <2>3
<1>5. \A x \in builds' : RecordVerdict(x)'
  <2> SUFFICES ASSUME NEW x \in builds PROVE RecordVerdict(x)'
    BY <1>1
  <2>1. RecordVerdict(x) /\ x.recipe_digest \in Recipes
    BY DEF VerdictInv, LedgerInv, IInv, TypeOK, BuildRecord
  <2>2. CASE x.recipe_digest = r
    BY <1>1, <1>2, <2>1, <2>2 DEF RecordVerdict, Overridable
  <2>3. CASE x.recipe_digest # r
    <3>1. vex'[x.recipe_digest] = vex[x.recipe_digest]
      BY <1>3, <2>1, <2>3
    <3> QED
      BY <1>1, <2>1, <3>1 DEF RecordVerdict, Overridable
  <2> QED
    BY <2>2, <2>3
<1> QED
  BY <1>4, <1>5 DEF VerdictInv

\* A recorded denial keeps the scan it stands by.
LEMMA RecordKeepsVerdict ==
    ASSUME LedgerInv, VerdictInv, NEW r \in builds, UNCHANGED vex,
           \/ scans \subseteq scans'
           \/ \E b \in Builders : Pending(b) /\ scans' = scans \ {job[b].scan}
    PROVE  RecordVerdict(r)'
<1>1. RecordVerdict(r) /\ FreshIds /\ \A s \in scans : s.id \in Nat
  BY DEF VerdictInv, LedgerInv, IInv, TypeOK, Scan
<1>2. \A s \in scans : s.id = r.artifact_scan_id => s \in scans'
  BY <1>1 DEF FreshIds
<1> QED
  BY <1>1, <1>2 DEF RecordVerdict, Overridable

\* An import step leaves the other handlers' verdicts alone.
LEMMA ImportVerdict ==
    ASSUME LedgerInv, VerdictInv, NEW b \in Builders, Import(b)
    PROVE  VerdictInv'
<1>1. /\ TypeOK /\ Gathered(b) /\ JobVerdict(b) /\ job \in [Builders -> Job]
      /\ job[b] \in Job /\ UNCHANGED vex /\ clock \in Nat /\ scans \subseteq Scan
  BY DEF LedgerInv, VerdictInv, IInv, TypeOK, Import, ScanSource, DenyIntake, StartImport,
     CopyFails, CopyLayer, ValidateInPlace, DigestInPlace, LinkNew, LinkExists, AdoptExisting,
     Recheck, Inspect, InspectFails, Decide, SaveScan, CommitBuild, CommitFails, SaveRecord
<1>2. \A r \in builds : RecordVerdict(r)'
  <2>1. \/ scans \subseteq scans'
        \/ \E c \in Builders : Pending(c) /\ scans' = scans \ {job[c].scan}
    BY DEF Import, ScanSource, DenyIntake, StartImport, CopyFails, CopyLayer, ValidateInPlace,
       DigestInPlace, LinkNew, LinkExists, AdoptExisting, Recheck, Inspect, InspectFails,
       Decide, SaveScan, CommitBuild, CommitFails, SaveRecord, Step, Pending
  <2> QED
    BY <1>1, <2>1, RecordKeepsVerdict
<1>3. \A c \in Builders : c # b => JobVerdict(c)'
  <2>1. \A c \in Builders : c # b => job'[c] = job[c]
    BY <1>1 DEF Import, ScanSource, DenyIntake, StartImport, CopyFails, CopyLayer,
       ValidateInPlace, DigestInPlace, LinkNew, LinkExists, AdoptExisting, Recheck, Inspect,
       InspectFails, Decide, SaveScan, CommitBuild, CommitFails, SaveRecord, Goto, Abandon
  <2> QED
    BY <1>1, <2>1 DEF VerdictInv, JobVerdict, Draft, Overridable
<1>4. job' = Abandon(b) => JobVerdict(b)'
  BY <1>1 DEF Abandon, JobVerdict, IdleJob
<1>5. CASE Decide(b)
  <2> DEFINE j == job[b]
             record == Record(j, j.started, "succeeded", j.scan.id)
             verdict == evaluate_gate(Policy[j.recipe], record, j.scan, vex[j.recipe], 0)
             k == [job[b] EXCEPT !.pc = "save_scan", !.decision = verdict]
  <2>1. job' = [job EXCEPT ![b] = k] /\ UNCHANGED builds /\ j.pc = "decide"
    BY <1>5 DEF Decide, Step
  <2>2. job'[b] = k
    BY <1>1, <2>1
  <2>3. /\ k.pc = "save_scan" /\ k.decision = verdict /\ k.recipe = j.recipe
        /\ k.scan = j.scan /\ k.started = j.started /\ k.source = j.source
        /\ k.artifact = j.artifact /\ j.decision = None
    BY <1>1, <2>1 DEF Job, JobVerdict
  <2>4. /\ j.recipe \in Recipes /\ j.source \in Scan /\ j.artifact \in ArtifactRef
        /\ j.scan \in Scan /\ j.scan.id \in Nat /\ j.started \in Nat
    BY <1>1, <2>1 DEF Gathered, Pending, Scan, Job
  <2>5. verdict \in Verdict
    BY VerdictType
  <2> HIDE DEF verdict, k
  <2>6. record # None
    BY <2>3, <2>4, RecordType, NoneAssumption
  <2>7. Draft(b)' # None
    <3>1. Draft(b)' = Record(k, k.started, "succeeded", k.scan.id)
      BY <2>2 DEF Draft
    <3>2. Record(k, k.started, "succeeded", k.scan.id) \in BuildRecord
      BY <2>3, <2>4, <2>5, RecordType
    <3> QED
      BY <3>1, <3>2, NoneAssumption
  <2>8. /\ Draft(b)'.recipe_digest = record.recipe_digest
        /\ Draft(b)'.status = record.status
        /\ Draft(b)'.timestamped = record.timestamped
        /\ Draft(b)'.source_scan_id = record.source_scan_id
        /\ Draft(b)'.source_scan_digest = record.source_scan_digest
        /\ Draft(b)'.artifact = record.artifact
    BY <2>2, <2>3 DEF Draft, Record
  <2>9. verdict = "denied" =>
           Denies(Policy[j.recipe], record, j.scan, vex[j.recipe], 0)
    BY DEF verdict, evaluate_gate
  <2>10. Denies(Policy[j.recipe], record, j.scan, vex[j.recipe], 0) =>
            Denies(Policy[j.recipe], Draft(b)', j.scan, vex[j.recipe], 0)
    <3> HIDE DEF record
    <3> DEFINE d == Draft(b)'
    <3>1. d # None /\ record # None
      BY <2>6, <2>7
    <3>2. /\ record.recipe_digest = d.recipe_digest /\ record.status = d.status
          /\ record.timestamped = d.timestamped
          /\ record.source_scan_id = d.source_scan_id
          /\ record.source_scan_digest = d.source_scan_digest
          /\ record.artifact = d.artifact
      BY <2>8
    <3> HIDE DEF d
    <3>3. Denies(Policy[j.recipe], record, j.scan, vex[j.recipe], 0) =>
             Denies(Policy[j.recipe], d, j.scan, vex[j.recipe], 0)
      BY <3>1, <3>2, VerdictNotRead
    <3> QED
      BY <3>3 DEF d
  <2> HIDE DEF record
  <2>11. JobVerdict(b)'
    BY <1>1, <2>2, <2>3, <2>9, <2>10 DEF JobVerdict, Overridable
  <2> QED
    BY <1>2, <1>3, <2>1, <2>11 DEF VerdictInv
<1>6. CASE SaveScan(b)
  <2>1. /\ job' = [job EXCEPT ![b].pc = "commit"] /\ job[b].pc = "save_scan"
        /\ UNCHANGED builds
    BY <1>6 DEF SaveScan, Goto, Step
  <2>2. /\ job'[b].pc = "commit" /\ job'[b].decision = job[b].decision
        /\ job'[b].recipe = job[b].recipe /\ job'[b].scan = job[b].scan
        /\ job'[b].started = job[b].started /\ job'[b].source = job[b].source
        /\ job'[b].artifact = job[b].artifact
    BY <1>1, <2>1 DEF Job
  <2>3. Draft(b)' = Draft(b)
    BY <2>2 DEF Draft, Record
  <2>4. JobVerdict(b)'
    BY <1>1, <2>1, <2>2, <2>3 DEF JobVerdict, Overridable
  <2> QED
    BY <1>2, <1>3, <2>1, <2>4 DEF VerdictInv
<1>7. CASE CommitBuild(b)
  <2>1. /\ builds' = builds \cup {Draft(b)} /\ UNCHANGED scans /\ job' = Abandon(b)
        /\ job[b].pc = "commit"
    BY <1>7 DEF CommitBuild, Step, Draft
  <2>2. /\ Draft(b).policy_decision = job[b].decision
        /\ Draft(b).recipe_digest = job[b].recipe
        /\ Draft(b).artifact_scan_id = job[b].scan.id
    BY DEF Draft, Record
  <2>3. job[b].scan \in scans /\ job[b].scan.recipe_digest = job[b].recipe
    BY <1>1, <2>1 DEF Gathered, Pending
  <2>4. PICK e : e = Draft(b)
    OBVIOUS
  <2>5. RecordVerdict(e)'
    BY <1>1, <2>1, <2>2, <2>3, <2>4 DEF RecordVerdict, JobVerdict, Overridable
  <2> QED
    BY <1>2, <1>3, <1>4, <2>1, <2>4, <2>5 DEF VerdictInv
<1>8. CASE DenyIntake(b)
  <2>1. PICK e : /\ e = Record([job[b] EXCEPT !.decision = "denied"], clock, "failed", None)
                 /\ builds' = builds \cup {e} /\ job' = Abandon(b)
    BY <1>8 DEF DenyIntake
  <2>2. e.status = "failed"
    BY <2>1 DEF Record
  <2>3. RecordVerdict(e)'
    BY <2>2 DEF RecordVerdict
  <2> QED
    BY <1>2, <1>3, <1>4, <2>1, <2>3 DEF VerdictInv
<1>9. CASE SaveRecord(b)
  <2>1. PICK e :
           /\ e = Record(job[b], job[b].started,
                         IF job[b].artifact = None THEN "failed" ELSE "succeeded", None)
           /\ builds' = builds \cup {e} /\ job' = Abandon(b) /\ job[b].pc = "record"
    BY <1>9 DEF SaveRecord, Step
  <2>2. e.policy_decision = None
    BY <1>1, <2>1 DEF Record, JobVerdict
  <2>3. RecordVerdict(e)'
    BY <2>2, NoneAssumption DEF RecordVerdict, Verdict
  <2> QED
    BY <1>2, <1>3, <1>4, <2>1, <2>3 DEF VerdictInv
<1>10. CASE ~(Decide(b) \/ SaveScan(b) \/ CommitBuild(b) \/ DenyIntake(b) \/ SaveRecord(b))
  <2>1. UNCHANGED builds
    BY <1>10 DEF Import, ScanSource, StartImport, CopyFails, CopyLayer, ValidateInPlace,
       DigestInPlace, LinkNew, LinkExists, AdoptExisting, Recheck, Inspect, InspectFails,
       CommitFails
  <2>2. CASE job' # Abandon(b)
    <3>1. job[b].decision = None
      BY <1>1, <1>10, <2>2 DEF Import, ScanSource, StartImport, CopyFails, CopyLayer,
         ValidateInPlace, DigestInPlace, LinkNew, LinkExists, AdoptExisting, Recheck, Inspect,
         InspectFails, CommitFails, Step, JobVerdict
    <3>2. job'[b].decision = job[b].decision /\ job'[b].pc \notin {"save_scan", "commit"}
      BY <1>1, <1>10, <2>2 DEF Import, ScanSource, StartImport, CopyFails, CopyLayer,
         ValidateInPlace, DigestInPlace, LinkNew, LinkExists, AdoptExisting, Recheck, Inspect,
         InspectFails, CommitFails, Goto, Job
    <3>3. JobVerdict(b)'
      BY <3>1, <3>2 DEF JobVerdict
    <3> QED
      BY <1>2, <1>3, <2>1, <3>3 DEF VerdictInv
  <2>3. CASE job' = Abandon(b)
    BY <1>2, <1>3, <1>4, <2>1, <2>3 DEF VerdictInv
  <2> QED
    BY <2>2, <2>3
<1> QED
  BY <1>5, <1>6, <1>7, <1>8, <1>9, <1>10

\* So does everything else.
LEMMA OtherVerdict ==
    ASSUME LedgerInv, VerdictInv, [Next]_vars, \A b \in Builders : ~Import(b)
    PROVE  VerdictInv'
<1>1. job \in [Builders -> Job] /\ \A b \in Builders : JobVerdict(b)
  BY DEF LedgerInv, VerdictInv, IInv, TypeOK
<1>2. ASSUME UNCHANGED <<builds, scans, vex>>,
             \A b \in Builders : job'[b] = job[b] \/ JobVerdict(b)'
      PROVE  VerdictInv'
  BY <1>1, <1>2 DEF VerdictInv, JobVerdict, Draft, RecordVerdict, Overridable
<1>3. CASE UNCHANGED <<builds, scans, vex, job>>
  BY <1>2, <1>3
<1>4. ASSUME NEW b \in Builders, NEW r \in Recipes, PlanBuild(b, r)
      PROVE  VerdictInv'
  <2>1. PICK e : e.policy_decision = None /\ builds' = builds \cup {e}
    BY <1>4 DEF PlanBuild
  <2>2. UNCHANGED <<scans, vex, job>>
    BY <1>4 DEF PlanBuild
  <2>3. RecordVerdict(e)'
    BY <2>1, NoneAssumption DEF RecordVerdict, Verdict
  <2>4. \A x \in builds : RecordVerdict(x)'
    BY <2>2, RecordKeepsVerdict
  <2>5. \A c \in Builders : JobVerdict(c)'
    BY <1>1, <2>2 DEF JobVerdict, Draft, Overridable
  <2> QED
    BY <2>1, <2>3, <2>4, <2>5 DEF VerdictInv
<1>5. ASSUME NEW b \in Builders, NEW r \in Recipes, NEW c \in BOOLEAN, StartBuild(b, r, c)
      PROVE  VerdictInv'
  <2>1. \A d \in Builders : job'[d] = job[d] \/ JobVerdict(d)'
    BY <1>1, <1>5 DEF StartBuild, JobVerdict, IdleJob
  <2> QED
    BY <1>2, <1>5, <2>1 DEF StartBuild
<1>6. ASSUME NEW b \in Builders, Abort(b)
      PROVE  VerdictInv'
  <2>1. \A d \in Builders : job'[d] = job[d] \/ JobVerdict(d)'
    BY <1>1, <1>6 DEF Abort, Abandon, JobVerdict, IdleJob
  <2> QED
    BY <1>2, <1>6, <2>1 DEF Abort
<1>7. CASE Crash
  <2>1. \A d \in Builders : JobVerdict(d)'
    BY <1>7 DEF Crash, JobVerdict, IdleJob
  <2> QED
    BY <1>2, <1>7, <2>1 DEF Crash
<1>8. CASE Request
  <2>1. ASSUME NEW p \in Pullers, \/ \E r \in Recipes : ManifestStart(p, r)
                                  \/ \E d \in Layers : BlobStart(p, d)
        PROVE  UNCHANGED <<builds, scans, vex, job>>
    BY <2>1 DEF ManifestStart, BlobStart
  <2> QED
    BY <1>3, <1>4, <1>5, <1>8, <2>1 DEF Request
<1>9. CASE \E p \in Pullers : Serve(p)
  <2>1. UNCHANGED <<builds, scans, vex, job>>
    BY <1>9 DEF Serve, SelectLayer, VerifyLayer, ReadEvidence, Judge, OpenBlob, EndPull
  <2> QED
    BY <1>3, <2>1
<1>10. CASE Environment
  <2>1. CASE \E r \in Recipes, s \in Statements : AddVex(r, s)
    BY <2>1, AddVexVerdict
  <2>2. CASE /\ ~Crash /\ ~\E b \in Builders : Abort(b)
             /\ ~\E r \in Recipes, s \in Statements : AddVex(r, s)
    <3>1. UNCHANGED <<builds, scans, vex, job>>
      BY <1>10, <2>2 DEF Environment, EditTree, ArtifactExpires, SweepRemove
    <3> QED
      BY <1>3, <3>1
  <2> QED
    BY <1>6, <1>7, <2>1, <2>2
<1>11. CASE UNCHANGED vars
  BY <1>3, <1>11 DEF vars
<1> QED
  BY <1>8, <1>9, <1>10, <1>11 DEF Next

\* What is recorded as denied is denied, read again.
LEMMA DenialStands ==
    ASSUME LedgerInv, VerdictInv
    PROVE  QuarantineIsPermanent
<1> SUFFICES ASSUME NEW r \in builds, r.policy_decision = "denied",
                    ~Overridable(r.recipe_digest)
             PROVE  metadata_gate(r.recipe_digest, r) = "denied"
  BY DEF QuarantineIsPermanent, Overridable
<1>1. r \in BuildRecord /\ r # None /\ RecordVerdict(r) /\ IInv
  BY NoneAssumption DEF LedgerInv, VerdictInv, IInv, TypeOK
<1>2. CASE r.status = "failed"
  <2>1. \A scan : Denies(Policy[r.recipe_digest], r, scan, vex[r.recipe_digest], 0)
    BY <1>1, <1>2, FailureDenies
  <2> QED
    BY <2>1 DEF metadata_gate, evaluate_gate
<1>3. CASE r.status # "failed"
  <2>1. PICK s \in scans :
           /\ s.id = r.artifact_scan_id /\ s.recipe_digest = r.recipe_digest
           /\ Denies(Policy[r.recipe_digest], r, s, vex[r.recipe_digest], 0)
    BY <1>1, <1>3 DEF RecordVerdict
  <2>2. s \in Scan /\ r.artifact_scan_id # None
    BY <1>1, <2>1, NoneAssumption DEF IInv, TypeOK, Scan
  <2>3. StoredScan(r.recipe_digest, r.artifact_scan_id) = s
    BY <1>1, <2>1, UniqueScan
  <2>4. load_decision_scan(r.recipe_digest, r) = s
    BY <1>1, <2>2, <2>3 DEF load_decision_scan, BoundToScan
  <2> QED
    BY <2>1, <2>4 DEF metadata_gate, evaluate_gate
<1> QED
  BY <1>2, <1>3

-----------------------------------------------------------------------------
(***************************************************************************)
(* What a reader judges.                                                   *)
(***************************************************************************)

\* A recipe with an import that is on record has a latest one, and that is not older.
LEMMA LatestExists ==
    ASSUME LedgerInv, NEW x \in builds, x.status # "planned"
    PROVE  LET latest == latest_build_evidence(x.recipe_digest)
           IN  latest \in builds /\ x.created_at <= latest.created_at
<1> DEFINE r == x.recipe_digest
           S == {b \in RecordsOf(r) : b.status # "planned"}
           Below == OpToRel(<, Nat)
           Ages == {clock - b.created_at : b \in S}
<1>1. /\ clock \in Nat
      /\ \A b \in S : b \in builds /\ b.created_at \in Nat /\ b.created_at < clock
      /\ x \in S
  BY DEF LedgerInv, IInv, TypeOK, Stamped, RecordsOf, BuildRecord
<1>2. Ages \subseteq Nat /\ Ages # {}
  <2> HIDE DEF S
  <2> QED
    BY <1>1
<1>3. PICK age \in Ages : \A other \in Ages : ~(<<other, age>> \in Below)
  <2> HIDE DEF Ages, Below
  <2>1. IsWellFoundedOn(OpToRel(<, Nat), Nat)
    BY NatLessThanWellFounded
  <2> QED
    BY <1>2, <2>1, WFMin DEF Below
<1>4. PICK b \in S : age = clock - b.created_at
  BY <1>3
<1>5. ASSUME NEW c \in S PROVE c.created_at <= b.created_at
  <2> HIDE DEF S
  <2>1. clock - c.created_at \in Ages
    OBVIOUS
  <2>2. ~(<<clock - c.created_at, clock - b.created_at>> \in Below)
    BY <1>3, <1>4, <2>1
  <2>3. /\ clock - c.created_at \in Nat /\ clock - b.created_at \in Nat
        /\ b.created_at \in Nat /\ c.created_at \in Nat
    BY <1>1, <1>2, <1>4
  <2>4. ~(clock - c.created_at < clock - b.created_at)
    BY <2>2, <2>3 DEF OpToRel
  <2> QED
    BY <1>1, <2>3, <2>4
<1>6. IsLatest(r, b) /\ b \in builds
  BY <1>1, <1>4, <1>5 DEF IsLatest
<1>7. IsLatest(r, latest_build_evidence(r))
  BY <1>6 DEF latest_build_evidence
<1> QED
  BY <1>1, <1>7 DEF IsLatest, RecordsOf

LEMMA LatestIs ==
    ASSUME NEW r, latest_build_evidence(r) # None
    PROVE  LET latest == latest_build_evidence(r)
           IN  /\ latest \in builds /\ latest.recipe_digest = r /\ latest.status # "planned"
               /\ \A x \in builds : x.recipe_digest = r /\ x.status # "planned"
                     => x.created_at <= latest.created_at
BY DEF latest_build_evidence, IsLatest, RecordsOf

\* Records are never removed, so what a reader knows stays true while it waits.
LEMMA JudgedFrame ==
    ASSUME JudgedInv, builds \subseteq builds', NEW p \in Pullers, pull'[p] = pull[p]
    PROVE  Judged(p)'
BY DEF JudgedInv, Judged, Overridable

LEMMA IdleJudged ==
    ASSUME NEW p \in Pullers, pull'[p] = IdlePull
    PROVE  Judged(p)'
BY DEF Judged, IdlePull

\* A step of one reader keeps what it knows.
LEMMA ServeJudged ==
    ASSUME LedgerInv, VerdictInv, JudgedInv, NEW p \in Pullers, Serve(p)
    PROVE  JudgedInv'
<1>1. /\ pull \in [Pullers -> Pull] /\ pull[p] \in Pull /\ Judged(p) /\ Selected(p)
      /\ builds' = builds
  BY DEF LedgerInv, PullInv, JudgedInv, IInv, TypeOK, Serve, SelectLayer, VerifyLayer,
     ReadEvidence, Judge, OpenBlob, EndPull
<1>2. \A q : pull' = [pull EXCEPT ![p] = q] =>
         pull'[p] = q /\ \A o \in Pullers : o # p => pull'[o] = pull[o]
  BY <1>1
<1>3. ASSUME NEW q, pull' = [pull EXCEPT ![p] = q], Judged(p)'
      PROVE  JudgedInv'
  BY <1>1, <1>2, <1>3, JudgedFrame DEF JudgedInv
<1>4. ASSUME pull' = Answer(p)
      PROVE  JudgedInv'
  BY <1>2, <1>3, <1>4, IdleJudged DEF Answer
<1>5. ASSUME pull' = NoLayer(p), pull[p].pc = "verify"
      PROVE  JudgedInv'
  <2>1. CASE pull[p].kind = "manifest"
    BY <1>4, <1>5, <2>1 DEF NoLayer
  <2>2. CASE pull[p].kind # "manifest"
    <3> DEFINE q == [pull[p] EXCEPT !.pc = "layer", !.recipe = None, !.layer = None]
    <3>1. pull' = [pull EXCEPT ![p] = q] /\ pull[p].kind = "blob"
      BY <1>1, <1>5, <2>2 DEF NoLayer, Pull
    <3>2. /\ q.pc = "layer" /\ q.kind = "blob" /\ q.gated = pull[p].gated
          /\ pull[p].gated = None
      BY <1>1, <1>5, <3>1 DEF Pull, Judged
    <3> HIDE DEF q
    <3>3. Judged(p)'
      BY <1>2, <3>1, <3>2 DEF Judged
    <3> QED
      BY <1>3, <3>1, <3>3
  <2> QED
    BY <2>1, <2>2
<1>6. CASE SelectLayer(p)
  <2>1. ASSUME NEW r, Select(p, r), pull[p].kind = "manifest" => r = pull[p].recipe,
               pull[p].pc = "layer"
        PROVE  JudgedInv'
    <3> DEFINE latest == latest_build_evidence(r)
    <3>1. CASE HasLayerToServe(latest)
      <4> DEFINE q == [pull[p] EXCEPT !.pc = "verify", !.recipe = r, !.todo = @ \ {r},
                                      !.layer = latest]
      <4>1. pull' = [pull EXCEPT ![p] = q]
        BY <2>1, <3>1 DEF Select
      <4>2. /\ q.pc = "verify" /\ q.recipe = r /\ q.layer = latest
            /\ q.kind = pull[p].kind /\ q.gated = pull[p].gated
            /\ pull[p].kind \in {"manifest", "blob"}
        BY <1>1 DEF Pull
      <4>3. latest # None
        BY <3>1 DEF HasLayerToServe
      <4>4. \A x \in builds : x.recipe_digest = r /\ x.status # "planned"
                              => x.created_at <= latest.created_at
        BY <4>3, LatestIs
      <4> HIDE DEF q, latest
      <4>5. CASE pull[p].kind = "blob"
        <5>1. q.gated = None
          BY <1>1, <2>1, <4>2, <4>5 DEF Judged
        <5>2. Judged(p)'
          BY <1>2, <4>1, <4>2, <4>5, <5>1 DEF Judged
        <5> QED
          BY <1>3, <4>1, <5>2
      <4>6. CASE pull[p].kind = "manifest"
        <5>1. q.gated # None => /\ q.gated \in builds' /\ q.gated.recipe_digest = r
                                /\ q.gated.status # "planned"
                                /\ q.gated.created_at <= latest.created_at
          BY <1>1, <2>1, <4>2, <4>4, <4>6 DEF Judged
        <5>2. Judged(p)'
          BY <1>2, <4>1, <4>2, <4>6, <5>1 DEF Judged
        <5> QED
          BY <1>3, <4>1, <5>2
      <4> QED
        BY <4>2, <4>5, <4>6
    <3>2. CASE ~HasLayerToServe(latest) /\ pull[p].kind = "manifest"
      BY <1>4, <2>1, <3>2 DEF Select
    <3>3. CASE ~HasLayerToServe(latest) /\ pull[p].kind # "manifest"
      <4> DEFINE q == [pull[p] EXCEPT !.todo = @ \ {r}]
      <4>1. pull' = [pull EXCEPT ![p] = q]
        BY <2>1, <3>3 DEF Select
      <4>2. /\ q.pc = pull[p].pc /\ q.recipe = pull[p].recipe /\ q.layer = pull[p].layer
            /\ q.kind = pull[p].kind /\ q.gated = pull[p].gated
        BY <1>1 DEF Pull
      <4> HIDE DEF q
      <4>3. Judged(p)'
        BY <1>1, <1>2, <4>1, <4>2 DEF Judged, Overridable
      <4> QED
        BY <1>3, <4>1, <4>3
    <3> QED
      BY <3>1, <3>2, <3>3
  <2> QED
    BY <1>4, <1>6, <2>1 DEF SelectLayer, At
<1>7. CASE VerifyLayer(p)
  <2> DEFINE served == [pull[p] EXCEPT !.pc = "served"]
             gate == [pull[p] EXCEPT !.pc = "gate"]
  <2>1. pull[p].pc = "verify"
    BY <1>7 DEF VerifyLayer, At
  <2>2. CASE pull' = NoLayer(p)
    BY <1>5, <2>1, <2>2
  <2>3. CASE pull[p].kind = "manifest" /\ pull' = [pull EXCEPT ![p] = served]
    <3>1. /\ served.pc = "served" /\ served.recipe = pull[p].recipe
          /\ served.layer = pull[p].layer /\ served.kind = "manifest"
          /\ served.gated = pull[p].gated
      BY <1>1, <2>3 DEF Pull
    <3> HIDE DEF served
    <3>2. Judged(p)'
      BY <1>1, <1>2, <2>1, <2>3, <3>1 DEF Judged
    <3> QED
      BY <1>3, <2>3, <3>2
  <2>4. CASE pull[p].kind # "manifest" /\ pull' = [pull EXCEPT ![p] = gate]
    <3>1. gate.pc = "gate" /\ gate.gated = pull[p].gated /\ pull[p].kind = "blob"
      BY <1>1, <2>4 DEF Pull
    <3>2. pull[p].gated = None
      BY <1>1, <2>1, <3>1 DEF Judged
    <3> HIDE DEF gate
    <3>3. Judged(p)'
      BY <1>2, <2>4, <3>1, <3>2 DEF Judged
    <3> QED
      BY <1>3, <2>4, <3>3
  <2> QED
    BY <1>7, <2>2, <2>3, <2>4 DEF VerifyLayer
<1>8. CASE ReadEvidence(p)
  <2> DEFINE latest == latest_build_evidence(pull[p].recipe)
             q == [pull[p] EXCEPT !.pc = "judge", !.gated = latest]
  <2>1. pull' = [pull EXCEPT ![p] = q] /\ pull[p].pc = "gate"
    BY <1>8 DEF ReadEvidence, At
  <2>2. /\ q.pc = "judge" /\ q.gated = latest /\ q.recipe = pull[p].recipe
        /\ q.layer = pull[p].layer /\ q.kind = pull[p].kind
    BY <1>1 DEF Pull
  <2>3. latest # None => /\ latest \in builds /\ latest.recipe_digest = pull[p].recipe
                         /\ latest.status # "planned"
    BY LatestIs
  <2>4. pull[p].kind = "blob" => /\ latest # None
                                 /\ pull[p].layer.created_at <= latest.created_at
    <3> SUFFICES ASSUME pull[p].kind = "blob"
                 PROVE  latest # None /\ pull[p].layer.created_at <= latest.created_at
      OBVIOUS
    <3>1. /\ pull[p].layer \in builds /\ pull[p].layer.recipe_digest = pull[p].recipe
          /\ pull[p].layer.status # "planned"
      BY <1>1, <2>1 DEF Selected, Blob
    <3>2. latest \in builds /\ pull[p].layer.created_at <= latest.created_at
      BY <3>1, LatestExists
    <3> QED
      BY <3>2, NoneAssumption DEF LedgerInv, IInv, TypeOK
  <2> HIDE DEF q, latest
  <2>5. Judged(p)'
    BY <1>1, <1>2, <2>1, <2>2, <2>3, <2>4 DEF Judged
  <2> QED
    BY <1>3, <2>1, <2>5
<1>9. CASE Judge(p)
  <2>1. CASE pull' = Answer(p)
    BY <1>4, <2>1
  <2>2. CASE pull' # Answer(p)
    <3> DEFINE to == IF pull[p].kind = "manifest" THEN "layer" ELSE "open"
               q == [pull[p] EXCEPT !.pc = to]
    <3>1. /\ pull' = [pull EXCEPT ![p] = q] /\ pull[p].pc = "judge"
          /\ metadata_gate(pull[p].recipe, pull[p].gated) # "denied"
      BY <1>9, <2>2 DEF Judge, At
    <3>2. /\ q.pc = to /\ q.gated = pull[p].gated /\ q.recipe = pull[p].recipe
          /\ q.layer = pull[p].layer /\ q.kind = pull[p].kind
          /\ pull[p].kind \in {"manifest", "blob"}
      BY <1>1 DEF Pull
    <3>3. CASE pull[p].kind = "manifest"
      <4>1. q.pc = "layer" /\ q.kind = "manifest"
        BY <3>2, <3>3
      <4> HIDE DEF q, to
      <4>2. Judged(p)'
        BY <1>1, <1>2, <3>1, <3>2, <4>1 DEF Judged
      <4> QED
        BY <1>3, <3>1, <4>2
    <3>4. CASE pull[p].kind = "blob"
      <4>1. q.pc = "open" /\ q.kind = "blob"
        BY <3>2, <3>4
      <4>2. /\ pull[p].gated \in builds /\ pull[p].gated.recipe_digest = pull[p].recipe
            /\ pull[p].gated # None
        BY <1>1, <3>1, <3>4 DEF Judged
      <4>3. ~Overridable(pull[p].recipe) => pull[p].gated.policy_decision # "denied"
        BY <3>1, <4>2, DenialStands DEF QuarantineIsPermanent, Overridable
      <4> HIDE DEF q, to
      <4>4. Judged(p)'
        BY <1>1, <1>2, <3>1, <3>2, <4>1, <4>3 DEF Judged, Overridable
      <4> QED
        BY <1>3, <3>1, <4>4
    <3> QED
      BY <3>2, <3>3, <3>4
  <2> QED
    BY <2>1, <2>2
<1>10. CASE OpenBlob(p)
  <2>1. CASE pull' = Answer(p)
    BY <1>4, <2>1
  <2>2. CASE pull' # Answer(p)
    <3> DEFINE q == [pull[p] EXCEPT !.pc = "served",
                                    !.bytes = cache[pull[p].layer.artifact.digest]]
    <3>1. pull' = [pull EXCEPT ![p] = q] /\ pull[p].pc = "open" /\ pull[p].kind = "blob"
      BY <1>1, <1>10, <2>2 DEF OpenBlob, At, Selected
    <3>2. /\ q.pc = "served" /\ q.gated = pull[p].gated /\ q.recipe = pull[p].recipe
          /\ q.layer = pull[p].layer /\ q.kind = "blob"
      BY <1>1, <3>1 DEF Pull
    <3> HIDE DEF q
    <3>3. Judged(p)'
      BY <1>1, <1>2, <3>1, <3>2 DEF Judged, Overridable
    <3> QED
      BY <1>3, <3>1, <3>3
  <2> QED
    BY <2>1, <2>2
<1>11. CASE EndPull(p)
  BY <1>4, <1>11 DEF EndPull
<1> QED
  BY <1>6, <1>7, <1>8, <1>9, <1>10, <1>11 DEF Serve

LEMMA OtherJudged ==
    ASSUME LedgerInv, JudgedInv, [Next]_vars, \A p \in Pullers : ~Serve(p)
    PROVE  JudgedInv'
<1>1. builds \subseteq builds' /\ pull \in [Pullers -> Pull]
  BY StoreGrows DEF LedgerInv, IInv, TypeOK, vars
<1>2. CASE UNCHANGED pull
  BY <1>1, <1>2, JudgedFrame DEF JudgedInv
<1>3. CASE Crash
  BY <1>3, IdleJudged DEF Crash, JudgedInv
<1>4. ASSUME NEW p \in Pullers, \/ \E r \in Recipes : ManifestStart(p, r)
                                \/ \E d \in Layers : BlobStart(p, d)
      PROVE  JudgedInv'
  <2>1. /\ \A o \in Pullers : o # p => pull'[o] = pull[o]
        /\ pull'[p].gated = None
        /\ \/ pull'[p].kind = "manifest" /\ pull'[p].pc = "gate"
           \/ pull'[p].kind = "blob" /\ pull'[p].pc = "layer"
    BY <1>1, <1>4 DEF ManifestStart, BlobStart, IdlePull
  <2>2. Judged(p)'
    BY <2>1 DEF Judged
  <2> QED
    BY <1>1, <2>1, <2>2, JudgedFrame DEF JudgedInv
<1>5. CASE Request
  <2>1. (\E b \in Builders, r \in Recipes :
            PlanBuild(b, r) \/ \E c \in BOOLEAN : StartBuild(b, r, c)) => UNCHANGED pull
    BY DEF PlanBuild, StartBuild
  <2> QED
    BY <1>2, <1>4, <1>5, <2>1 DEF Request
<1>6. CASE \E b \in Builders : Import(b)
  <2>1. UNCHANGED pull
    BY <1>6 DEF Import, ScanSource, DenyIntake, StartImport, CopyFails, CopyLayer,
       ValidateInPlace, DigestInPlace, LinkNew, LinkExists, AdoptExisting, Recheck, Inspect,
       InspectFails, Decide, SaveScan, CommitBuild, CommitFails, SaveRecord
  <2> QED
    BY <1>2, <2>1
<1>7. CASE Environment /\ ~Crash
  <2>1. UNCHANGED pull
    BY <1>7 DEF Environment, Abort, EditTree, AddVex, ArtifactExpires, SweepRemove
  <2> QED
    BY <1>2, <2>1
<1>8. CASE UNCHANGED vars
  BY <1>2, <1>8 DEF vars
<1> QED
  BY <1>3, <1>5, <1>6, <1>7, <1>8 DEF Next

-----------------------------------------------------------------------------
(***************************************************************************)
(* The theorems.                                                           *)
(***************************************************************************)
LEMMA VerdictInvariance == Spec => [](LedgerInv /\ VerdictInv /\ JudgedInv)
<1>1. Init => LedgerInv /\ VerdictInv /\ JudgedInv
  <2>1. Init => VerdictInv /\ JudgedInv
    BY DEF Init, VerdictInv, JobVerdict, IdleJob, JudgedInv, Judged, IdlePull
  <2> QED
    BY <2>1, LedgerInit
<1>2. LedgerInv /\ VerdictInv /\ JudgedInv /\ [Next]_vars
         => LedgerInv' /\ VerdictInv' /\ JudgedInv'
  BY LedgerInvStep, ImportVerdict, OtherVerdict, ServeJudged, OtherJudged
<1> QED
  BY <1>1, <1>2, PTL DEF Spec

\* A recorded denial is repeated by every later evaluation of the gate (metadata_gate), no
\* matter which VEX statements have arrived, if the recipe admits no overrides.
THEOREM DenialIsPermanent == Spec => []QuarantineIsPermanent
<1>1. LedgerInv /\ VerdictInv => QuarantineIsPermanent
  BY DenialStands
<1> QED
  BY <1>1, VerdictInvariance, PTL

\* Between judging a record and serving one, a reader is overtaken by newer imports only
\* (latest_materialized_layer, enforce_manifest_gate).
THEOREM OvertakenForward == Spec => []OvertakenOnlyForward
<1>1. LedgerInv /\ JudgedInv => OvertakenOnlyForward
  <2> SUFFICES ASSUME LedgerInv, JudgedInv
               PROVE  OvertakenOnlyForward
    OBVIOUS
  <2>1. \A p \in Pullers : Judged(p) /\ pull[p].kind \in {"manifest", "blob"}
    BY DEF LedgerInv, JudgedInv, IInv, TypeOK, Pull
  <2> QED
    BY <2>1 DEF Judged, OvertakenOnlyForward
<1> QED
  BY <1>1, VerdictInvariance, PTL

\* A blob whose selected record is the one the gate judged was approved when it was imported
\* (oci_blob_response), if the recipe admits no overrides.
THEOREM JudgedIsApproved == Spec => []JudgedBlobWasApproved
<1>1. LedgerInv /\ JudgedInv => JudgedBlobWasApproved
  <2> SUFFICES ASSUME LedgerInv, JudgedInv, NEW p \in Pullers, Streaming(p),
                      pull[p].layer = pull[p].gated, ~Overridable(pull[p].recipe)
               PROVE  pull[p].layer.policy_decision = "allowed"
    BY DEF JudgedBlobWasApproved, Overridable
  <2>1. Judged(p) /\ Selected(p) /\ pull[p].kind = "blob" /\ pull[p].pc = "served"
    BY DEF LedgerInv, PullInv, JudgedInv, Streaming
  <2>2. pull[p].layer.policy_decision # "denied"
    BY <2>1 DEF Judged
  <2>3. /\ pull[p].layer \in builds /\ pull[p].layer.status = "succeeded"
        /\ pull[p].layer.artifact \in ArtifactRef /\ pull[p].layer.artifact.retained
    BY <2>1 DEF Selected, Blob
  <2>4. RecordBacked(pull[p].layer) /\ pull[p].layer \in BuildRecord
    BY <2>3 DEF LedgerInv, IInv, TypeOK
  <2>5. pull[p].layer.policy_decision \in Verdict
    BY <2>3, <2>4, NoneAssumption DEF RecordBacked, BuildRecord
  <2> QED
    BY <2>2, <2>5 DEF Verdict
<1> QED
  BY <1>1, VerdictInvariance, PTL
=============================================================================
