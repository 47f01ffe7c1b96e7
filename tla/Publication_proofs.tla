------------------------- MODULE Publication_proofs -------------------------
(***************************************************************************)
(* What clients find, for any recipes of the name, layers, assessments and *)
(* statements, and however many imports, statements, scans, expiries and   *)
(* power losses come between the steps of a request.                       *)
(***************************************************************************)
EXTENDS Publication, MetadataDocuments_proofs

-----------------------------------------------------------------------------
(***************************************************************************)
(* The evidence on file.                                                   *)
(***************************************************************************)

\* What create_build records.
IsBuild(r, b) ==
    /\ b.id \in Nat /\ b.created_at = b.id
    /\ b.source_scan_id = b.id /\ b.source_scan_digest = SourceScan(r, b.id)
    /\ \/ b.status = "failed" /\ b.artifact_scan_id = None
       \/ /\ b.status = "succeeded" /\ b.artifact_scan_id = b.id + 1
          /\ b.artifact.digest \in Layers

BuildInv ==
    \A r \in Ids :
        /\ \A b \in builds[r] : IsBuild(r, b) /\ 0 < b.id /\ b.id + 1 < clock
        /\ \A b, c \in builds[r] : b.id = c.id => b = c

ScanInv ==
    \A r \in Ids :
        /\ \A s \in scans[r] : s.id \in Nat /\ s.id < clock /\ s.created_at = s.id
        /\ \A s, t \in scans[r] : s.id = t.id => s = t
        /\ \A b \in builds[r], s \in scans[r] :
              s.id = b.artifact_scan_id => s.layers = {b.artifact.digest}

VexInv ==
    \A r \in Ids : vex[r] \in Seq({s \in Statements : Posted(Recipes[r], s)})

\* A file that will be written has not been damaged before.
PathInv == \A path \in unreadable \cup unsynced : path[3] \in Nat /\ path[3] < clock

StoreInv ==
    /\ clock \in Nat /\ 0 < clock
    /\ builds = [r \in Ids |-> builds[r]]
    /\ scans = [r \in Ids |-> scans[r]]
    /\ vex = [r \in Ids |-> vex[r]]
    /\ BuildInv /\ ScanInv /\ VexInv /\ PathInv

\* An import saves a record with a stamp of its own together with the scans it is bound to.
LEMMA SavedTogether ==
    ASSUME StoreInv, NEW r \in Ids,
           FailBuild(r) \/ \E l \in Layers, a \in Assessments : Import(r, l, a)
    PROVE  \E build, saved :
              /\ SaveEvidence(r, build, saved)
              /\ IsBuild(r, build) /\ build.id = clock
              /\ \A s \in saved : s.id \in {clock, clock + 1} /\ s.created_at = s.id
              /\ \A s, t \in saved : s.id = t.id => s = t
              /\ \A s \in saved : s.id = build.artifact_scan_id => s.layers = {build.artifact.digest}
              /\ \A id \in {build.source_scan_id, build.artifact_scan_id} \ {None} :
                    \E s \in saved : s.id = id
<1>1. clock \in Nat /\ None \notin Nat
  BY PublicationAssumption DEF StoreInv
<1>2. SourceScan(r, clock).id = clock /\ SourceScan(r, clock).created_at = clock
  BY DEF SourceScan
<1>3. CASE FailBuild(r)
  <2> DEFINE build == Record(r, "failed", None, None)
             saved == {SourceScan(r, clock)}
  <2>1. /\ build.id = clock /\ build.artifact_scan_id = None /\ build.source_scan_id = clock
        /\ IsBuild(r, build)
    BY <1>1 DEF Record, IsBuild
  <2>2. SaveEvidence(r, build, saved)
    BY <1>3 DEF FailBuild
  <2> HIDE DEF build
  <2> QED
    BY <1>1, <1>2, <2>1, <2>2
<1>4. ASSUME NEW l \in Layers, NEW a \in Assessments, Import(r, l, a)
      PROVE  \E build, saved :
              /\ SaveEvidence(r, build, saved)
              /\ IsBuild(r, build) /\ build.id = clock
              /\ \A s \in saved : s.id \in {clock, clock + 1} /\ s.created_at = s.id
              /\ \A s, t \in saved : s.id = t.id => s = t
              /\ \A s \in saved : s.id = build.artifact_scan_id => s.layers = {build.artifact.digest}
              /\ \A id \in {build.source_scan_id, build.artifact_scan_id} \ {None} :
                    \E s \in saved : s.id = id
  <2> DEFINE artifact == [digest |-> l, expires_at |-> IF Recipes[r].expiring THEN now + 1 ELSE None]
             build == Record(r, "succeeded", clock + 1, artifact)
             inspection == LayerScan(r, clock + 1, l, a)
             saved == {SourceScan(r, clock), inspection}
  <2>1. /\ build.id = clock /\ build.artifact_scan_id = clock + 1 /\ build.source_scan_id = clock
        /\ build.artifact.digest = l /\ IsBuild(r, build)
    BY <1>1 DEF Record, IsBuild
  <2>2. inspection.id = clock + 1 /\ inspection.created_at = clock + 1 /\ inspection.layers = {l}
    BY DEF LayerScan, SourceScan
  <2>3. SaveEvidence(r, build, saved)
    BY <1>4 DEF Import
  <2> HIDE DEF build, inspection
  <2> QED
    BY <1>1, <1>2, <2>1, <2>2, <2>3
<1> QED
  BY <1>3, <1>4

LEMMA InitStore == Init => StoreInv
BY DEF Init, StoreInv, BuildInv, ScanInv, VexInv, PathInv

LEMMA StoreStep == StoreInv /\ [Next]_vars => StoreInv'
<1> SUFFICES ASSUME StoreInv, [Next]_vars PROVE StoreInv'
  OBVIOUS
<1> USE PublicationAssumption
<1>1. /\ clock \in Nat /\ 0 < clock
      /\ builds = [r \in Ids |-> builds[r]] /\ scans = [r \in Ids |-> scans[r]]
      /\ vex = [r \in Ids |-> vex[r]]
      /\ BuildInv /\ ScanInv /\ VexInv /\ PathInv
  BY DEF StoreInv
<1>2. ASSUME UNCHANGED <<builds, scans, vex, unreadable, unsynced, clock>>
      PROVE  StoreInv'
  BY <1>1, <1>2 DEF StoreInv, BuildInv, ScanInv, VexInv, PathInv
<1>3. ASSUME NEW r \in Ids, FailBuild(r) \/ \E l \in Layers, a \in Assessments : Import(r, l, a)
      PROVE  StoreInv'
  <2>1. PICK build, saved :
              /\ SaveEvidence(r, build, saved)
              /\ IsBuild(r, build) /\ build.id = clock
              /\ \A s \in saved : s.id \in {clock, clock + 1} /\ s.created_at = s.id
              /\ \A s, t \in saved : s.id = t.id => s = t
              /\ \A s \in saved : s.id = build.artifact_scan_id => s.layers = {build.artifact.digest}
    BY <1>3, SavedTogether
  <2>2. /\ builds' = [builds EXCEPT ![r] = @ \cup {build}]
        /\ scans' = [scans EXCEPT ![r] = @ \cup saved]
        /\ unsynced' = unsynced \cup {BuildOf(r, build)} \cup {ScanOf(r, s) : s \in saved}
        /\ clock' = clock + 2
        /\ vex' = vex /\ unreadable' = unreadable
    BY <2>1 DEF SaveEvidence
  <2>3. /\ builds' = [q \in Ids |-> builds'[q]] /\ scans' = [q \in Ids |-> scans'[q]]
        /\ \A q \in Ids : builds'[q] = IF q = r THEN builds[r] \cup {build} ELSE builds[q]
        /\ \A q \in Ids : scans'[q] = IF q = r THEN scans[r] \cup saved ELSE scans[q]
    BY <1>1, <2>2
  <2>4. BuildInv'
    BY <1>1, <2>1, <2>2, <2>3 DEF BuildInv, IsBuild
  <2>5. ScanInv'
    <3> SUFFICES ASSUME NEW q \in Ids
                 PROVE  /\ \A s \in scans'[q] : s.id \in Nat /\ s.id < clock' /\ s.created_at = s.id
                        /\ \A s, t \in scans'[q] : s.id = t.id => s = t
                        /\ \A b \in builds'[q], s \in scans'[q] :
                              s.id = b.artifact_scan_id => s.layers = {b.artifact.digest}
      BY DEF ScanInv
    <3>1. \A s \in scans'[q] : \/ s \in scans[q] /\ s.id \in Nat /\ s.id < clock /\ s.created_at = s.id
                               \/ s \in saved /\ s.id \in {clock, clock + 1} /\ s.created_at = s.id
      BY <1>1, <2>1, <2>3 DEF ScanInv
    <3>2. \A b \in builds'[q] :
             \/ b \in builds[q] /\ (b.artifact_scan_id # None => b.artifact_scan_id \in Nat /\ b.artifact_scan_id < clock)
             \/ b = build /\ (b.artifact_scan_id = None \/ b.artifact_scan_id = clock + 1)
      <4>1. \A b \in builds[q] :
               b.artifact_scan_id # None => b.artifact_scan_id \in Nat /\ b.artifact_scan_id < clock
        BY <1>1 DEF BuildInv, IsBuild
      <4>2. build.artifact_scan_id = None \/ build.artifact_scan_id = clock + 1
        BY <2>1 DEF IsBuild
      <4>3. \A b \in builds'[q] : b \in builds[q] \/ b = build
        BY <2>3
      <4> QED
        BY <4>1, <4>2, <4>3
    <3>3. \A s \in scans'[q] : s.id \in Nat /\ s.id < clock' /\ s.created_at = s.id
      <4>1. clock \in Nat /\ clock' = clock + 2
        BY <1>1, <2>2
      <4> QED
        BY <3>1, <4>1
    <3>4. \A s, t \in scans'[q] : s.id = t.id => s = t
      BY <1>1, <2>1, <3>1 DEF ScanInv
    <3>5. ASSUME NEW b \in builds'[q], NEW s \in scans'[q], s.id = b.artifact_scan_id
          PROVE  s.layers = {b.artifact.digest}
      <4>1. s.id \in Nat /\ s.id # None
        BY <3>3
      <4>2. (b \in builds[q] /\ s \in scans[q]) \/ (b = build /\ s \in saved)
        <5>1. clock \in Nat
          BY <1>1
        <5> QED
          BY <3>1, <3>2, <3>5, <4>1, <5>1
      <4> QED
        BY <1>1, <2>1, <3>5, <4>2 DEF ScanInv
    <3> QED
      BY <3>3, <3>4, <3>5
  <2>6. VexInv'
    BY <1>1, <2>2 DEF VexInv
  <2>7. PathInv'
    <3>1. BuildOf(r, build)[3] = clock /\ \A s \in saved : ScanOf(r, s)[3] = s.id
      BY <2>1 DEF BuildOf, ScanOf, Path
    <3>2. \A path \in unreadable \cup unsynced : path[3] \in Nat /\ path[3] < clock
      BY <1>1 DEF PathInv
    <3>3. \A path \in unreadable' \cup unsynced' : path[3] \in Nat /\ path[3] < clock + 2
      BY <1>1, <2>1, <2>2, <3>1, <3>2
    <3> QED
      BY <2>2, <3>3 DEF PathInv
  <2> QED
    BY <1>1, <2>2, <2>3, <2>4, <2>5, <2>6, <2>7 DEF StoreInv
<1>4. ASSUME NEW r \in Ids, PostScan(r) PROVE StoreInv'
  <2> DEFINE scan == SourceScan(r, clock)
  <2>1. scan.id = clock /\ scan.created_at = clock /\ ScanOf(r, scan)[3] = clock
    BY DEF SourceScan, ScanOf, Path
  <2> HIDE DEF scan
  <2>2. /\ scans' = [scans EXCEPT ![r] = @ \cup {scan}]
        /\ unsynced' = unsynced \cup {ScanOf(r, scan)}
        /\ clock' = clock + 1
        /\ builds' = builds /\ vex' = vex /\ unreadable' = unreadable
    BY <1>4 DEF PostScan, scan
  <2>3. /\ scans' = [q \in Ids |-> scans'[q]]
        /\ \A q \in Ids : scans'[q] = IF q = r THEN scans[r] \cup {scan} ELSE scans[q]
    BY <1>1, <2>2
  <2>4. BuildInv'
    BY <1>1, <2>2 DEF BuildInv, IsBuild
  <2>5. ScanInv'
    <3>1. \A q \in Ids : \A s \in scans'[q] :
             \/ s \in scans[q] /\ s.id \in Nat /\ s.id < clock /\ s.created_at = s.id
             \/ s = scan
      BY <1>1, <2>3 DEF ScanInv
    <3>2. \A q \in Ids : \A b \in builds[q] : b.artifact_scan_id # clock
      BY <1>1 DEF BuildInv, IsBuild
    <3> QED
      BY <1>1, <2>1, <2>2, <3>1, <3>2 DEF ScanInv
  <2>6. VexInv' /\ PathInv'
    BY <1>1, <2>1, <2>2 DEF VexInv, PathInv
  <2> QED
    BY <1>1, <2>2, <2>3, <2>4, <2>5, <2>6 DEF StoreInv
<1>5. ASSUME NEW r \in Ids, NEW s \in Statements, AddVex(r, s) PROVE StoreInv'
  <2>1. Posted(Recipes[r], s)
    BY <1>5 DEF AddVex, AcceptsVex, Posted, Open
  <2>2. /\ vex' = [vex EXCEPT ![r] = Append(@, s)]
        /\ unsynced' = unsynced \cup {VexPath(r)}
        /\ UNCHANGED <<builds, scans, unreadable, clock>>
    BY <1>5 DEF AddVex
  <2>3. vex[r] \in Seq({t \in Statements : Posted(Recipes[r], t)})
    BY <1>1 DEF VexInv
  <2>4. Append(vex[r], s) \in Seq({t \in Statements : Posted(Recipes[r], t)})
    BY <2>1, <2>3
  <2>5. vex' = [q \in Ids |-> vex'[q]] /\ VexInv'
    BY <1>1, <2>2, <2>4 DEF VexInv
  <2>6. VexPath(r)[3] = 0
    BY DEF VexPath, Path
  <2>7. BuildInv' /\ ScanInv' /\ PathInv'
    BY <1>1, <2>2, <2>6 DEF BuildInv, ScanInv, PathInv
  <2> QED
    BY <1>1, <2>2, <2>5, <2>7 DEF StoreInv
<1>6. ASSUME NEW path \in unsynced, PowerLoss(path) PROVE StoreInv'
  <2>1. clock' = clock /\ unsynced' = {} /\ unreadable' \subseteq unreadable \cup {path}
    BY <1>6 DEF PowerLoss
  <2>2. PathInv'
    BY <1>1, <1>6, <2>1 DEF PathInv
  <2>3. /\ builds' = [q \in Ids |-> builds'[q]] /\ scans' = [q \in Ids |-> scans'[q]]
        /\ vex' = [q \in Ids |-> vex'[q]]
        /\ \A q \in Ids : builds'[q] \subseteq builds[q] /\ scans'[q] \subseteq scans[q]
        /\ \A q \in Ids : vex'[q] = vex[q] \/ vex'[q] = SubSeq(vex[q], 1, Len(vex[q]) - 1)
    BY <1>1, <1>6 DEF PowerLoss
  <2>4. BuildInv' /\ ScanInv'
    BY <1>1, <2>1, <2>3 DEF BuildInv, ScanInv
  <2>5. VexInv'
    <3> SUFFICES ASSUME NEW q \in Ids
                 PROVE  vex'[q] \in Seq({s \in Statements : Posted(Recipes[q], s)})
      BY DEF VexInv
    <3> DEFINE S == {s \in Statements : Posted(Recipes[q], s)}
    <3>1. vex[q] \in Seq(S)
      BY <1>1 DEF VexInv
    <3> HIDE DEF S
    <3>2. SubSeq(vex[q], 1, Len(vex[q]) - 1) \in Seq(S)
      BY <3>1
    <3> QED
      BY <2>3, <3>1, <3>2 DEF S
  <2> QED
    BY <1>1, <2>1, <2>2, <2>3, <2>4, <2>5 DEF StoreInv
<1>7. CASE Ask \/ Answer
  BY <1>2, <1>7 DEF Ask, Answer, AskForTag, AskForReferrers, AskForManifest, AskForBlob, Start,
     SelectBlob, ReadBuilds, Judge, ChooseLayer, ListBuilds, Publish, Finish, evidence
<1>8. CASE Tick \/ UNCHANGED vars
  BY <1>2, <1>8 DEF Tick, vars
<1> QED
  BY <1>3, <1>4, <1>5, <1>6, <1>7, <1>8 DEF Next, Write

-----------------------------------------------------------------------------
(***************************************************************************)
(* A request and what it has read.                                         *)
(***************************************************************************)
Places == {"idle", "select", "gate", "judge", "layer", "documents", "publish", "served", "refused"}

\* A value with exactly the fields of the reader.
Shape(x) ==
    x \in [pc : {x.pc}, request : {x.request}, want : {x.want}, at : {x.at}, record : {x.record},
           image : {x.image}, since : {x.since}, documents : {x.documents}, steady : {x.steady}]

ReaderOK ==
    /\ Shape(reader)
    /\ reader.pc \in Places
    /\ reader.since \in Nat
    /\ ~At("idle") => reader.at \in Ids
    /\ At("select") => reader.request = "blob"
    /\ reader.pc \in {"gate", "judge"} /\ reader.image # None => reader.request = "blob"

BuildsReadable(r) == \A b \in builds[r] : Readable(BuildOf(r, b))

ScansReadable(r, b) ==
    b # None =>
        \A id \in {b.source_scan_id, b.artifact_scan_id} \ {None} :
           \E s \in Stored(r, id) : Readable(ScanOf(r, s))

\* The scans of whatever was imported after the record are there; `strictly` without those of
\* the record itself.
NewerReadable(r, record, strictly) ==
    \A b \in builds[r] :
        \/ ScansReadable(r, b)
        \/ /\ record \in builds[r]
           /\ b.created_at <= record.created_at
           /\ strictly => b # record

\* What a step has established of the files of its candidate lasts until the power fails.
FilesInv ==
    /\ At("judge") /\ reader.record # CorruptBuild =>
          BuildsReadable(reader.at) /\ NewerReadable(reader.at, reader.record, FALSE)
    /\ reader.pc \in {"layer", "documents", "publish", "served"} =>
          /\ BuildsReadable(reader.at) /\ Readable(VexPath(reader.at))
          /\ ScansReadable(reader.at, reader.record)
    /\ reader.pc \in {"layer", "documents"} => NewerReadable(reader.at, reader.record, TRUE)

\* No record is older than the one the image was made from.
SinceInv ==
    /\ At("documents") => \E b \in builds[reader.at] : reader.since <= b.created_at
    /\ At("publish") \/ Referrers => reader.since <= reader.record.created_at

RequestInv == StoreInv /\ ReaderOK /\ FilesInv /\ SinceInv

-----------------------------------------------------------------------------
\* Of the records stamped so far one is the newest.
LEMMA NewestExistsOf ==
    ASSUME NEW S, clock \in Nat, \A c \in S : c.created_at \in Nat /\ c.created_at < clock,
           NEW b \in S
    PROVE  \E c \in S : \A d \in S : d.created_at <= c.created_at
<1> DEFINE Below == OpToRel(<, Nat)
           Ages == {clock - c.created_at : c \in S}
<1>1. Ages \subseteq Nat /\ Ages # {}
  OBVIOUS
<1>2. PICK age \in Ages : \A other \in Ages : ~(<<other, age>> \in Below)
  <2> HIDE DEF Ages
  <2> QED
    BY <1>1, NatLessThanWellFounded, WFMin
<1>3. PICK c \in S : age = clock - c.created_at
  BY <1>2
<1>4. ASSUME NEW d \in S PROVE d.created_at <= c.created_at
  <2>1. ~(<<clock - d.created_at, clock - c.created_at>> \in Below)
    BY <1>2, <1>3
  <2>2. /\ clock - d.created_at \in Nat /\ clock - c.created_at \in Nat
        /\ c.created_at \in Nat /\ d.created_at \in Nat
    OBVIOUS
  <2>3. ~(clock - d.created_at < clock - c.created_at)
    BY <2>1, <2>2 DEF OpToRel
  <2> QED
    BY <2>2, <2>3
<1> QED
  BY <1>4

\* Of the readable records of a recipe the newest is taken.
LEMMA LatestIsNewest ==
    ASSUME StoreInv, NEW r \in Ids, BuildsReadable(r), NEW b \in builds[r]
    PROVE  LET latest == latest_build_evidence(r)
           IN  latest \in builds[r] /\ \A c \in builds[r] : c.created_at <= latest.created_at
<1>1. clock \in Nat /\ \A c \in builds[r] : c.created_at \in Nat /\ c.created_at < clock
  BY DEF StoreInv, BuildInv, IsBuild
<1>2. \E c \in builds[r] : \A d \in builds[r] : d.created_at <= c.created_at
  BY <1>1, NewestExistsOf
<1>3. latest_build_evidence(r) = CHOOSE d \in builds[r] : \A e \in builds[r] : e.created_at <= d.created_at
  BY DEF latest_build_evidence, BuildsReadable
<1> QED
  BY <1>2, <1>3

\* So it is with the scans.
LEMMA LatestScanIsNewest ==
    ASSUME StoreInv, NEW r \in Ids, \A s \in scans[r] : Readable(ScanOf(r, s)), NEW t \in scans[r]
    PROVE  LET latest == latest_scan(r)
           IN  latest \in scans[r] /\ \A s \in scans[r] : s.created_at <= latest.created_at
<1>1. clock \in Nat /\ \A s \in scans[r] : s.created_at \in Nat /\ s.created_at < clock
  BY DEF StoreInv, ScanInv
<1>2. \E s \in scans[r] : \A u \in scans[r] : u.created_at <= s.created_at
  BY <1>1, NewestExistsOf
<1>3. latest_scan(r) = CHOOSE s \in scans[r] : \A u \in scans[r] : u.created_at <= s.created_at
  BY DEF latest_scan
<1> QED
  BY <1>2, <1>3

\* A record that is not the placeholder of the unreadable ones was listed without any.
LEMMA LatestReadable ==
    ASSUME NEW r \in Ids, latest_build_evidence(r) # CorruptBuild
    PROVE  BuildsReadable(r)
BY DEF latest_build_evidence, BuildsReadable

\* What the gate allows is no placeholder, and its scans and statements are there.
LEMMA AllowedIsReadable ==
    ASSUME NEW r \in Ids, NEW b, GateAllows(r, b)
    PROVE  b # CorruptBuild /\ ScansReadable(r, b) /\ Readable(VexPath(r))
<1>1. ~Denies(Recipes[r], b, load_decision_scan(r, b), vex[r], now)
  BY DEF GateAllows, evaluate_gate
<1>2. \A c \in SlsaCategories : ~BuildDefect(c, Recipes[r], b, load_decision_scan(r, b))
  BY <1>1 DEF Denies, slsa_policy_findings
<1>3. b # None => b.source_scan_id # None /\ b.source_scan_digest # None /\ b.status # "failed"
  BY <1>2 DEF BuildDefect, SlsaCategories
<1>4. ScansReadable(r, b)
  BY <1>3 DEF GateAllows, EvidenceFails, BoundScanMissing, source_scan_binding_error, ScansReadable
<1>5. b # CorruptBuild
  <2> SUFFICES ASSUME b = CorruptBuild PROVE FALSE
    OBVIOUS
  <2>1. b.status = "failed"
    BY DEF CorruptBuild
  <2> QED
    BY <1>3, <2>1, RecordAssumption
<1> QED
  BY <1>4, <1>5 DEF GateAllows, EvidenceFails

-----------------------------------------------------------------------------
(***************************************************************************)
(* How the reader moves.                                                   *)
(***************************************************************************)

\* Only the place changes, and what else is named.
LEMMA Moves ==
    ASSUME Shape(reader)
    PROVE  /\ \A pc : reader' = [reader EXCEPT !.pc = pc] =>
                 /\ Shape(reader') /\ reader'.pc = pc /\ reader'.at = reader.at
                 /\ reader'.request = reader.request /\ reader'.want = reader.want
                 /\ reader'.record = reader.record /\ reader'.image = reader.image
                 /\ reader'.since = reader.since /\ reader'.documents = reader.documents
                 /\ reader'.steady = reader.steady
           /\ \A pc, image : reader' = [reader EXCEPT !.pc = pc, !.image = image] =>
                 /\ Shape(reader') /\ reader'.pc = pc /\ reader'.at = reader.at
                 /\ reader'.request = reader.request /\ reader'.want = reader.want
                 /\ reader'.record = reader.record /\ reader'.image = image
                 /\ reader'.since = reader.since /\ reader'.documents = reader.documents
                 /\ reader'.steady = reader.steady
           /\ \A pc, record : reader' = [reader EXCEPT !.pc = pc, !.record = record] =>
                 /\ Shape(reader') /\ reader'.pc = pc /\ reader'.at = reader.at
                 /\ reader'.request = reader.request /\ reader'.want = reader.want
                 /\ reader'.record = record /\ reader'.image = reader.image
                 /\ reader'.since = reader.since /\ reader'.documents = reader.documents
                 /\ reader'.steady = reader.steady
           /\ \A pc, image, since :
                 reader' = [reader EXCEPT !.pc = pc, !.image = image, !.since = since] =>
                 /\ Shape(reader') /\ reader'.pc = pc /\ reader'.at = reader.at
                 /\ reader'.request = reader.request /\ reader'.want = reader.want
                 /\ reader'.record = reader.record /\ reader'.image = image
                 /\ reader'.since = since /\ reader'.documents = reader.documents
                 /\ reader'.steady = reader.steady
           /\ \A pc, documents : reader' = [reader EXCEPT !.pc = pc, !.documents = documents] =>
                 /\ Shape(reader') /\ reader'.pc = pc /\ reader'.at = reader.at
                 /\ reader'.request = reader.request /\ reader'.want = reader.want
                 /\ reader'.record = reader.record /\ reader'.image = reader.image
                 /\ reader'.since = reader.since /\ reader'.documents = documents
                 /\ reader'.steady = reader.steady
           /\ \A steady : reader' = [reader EXCEPT !.steady = steady] =>
                 /\ Shape(reader') /\ reader'.pc = reader.pc /\ reader'.at = reader.at
                 /\ reader'.request = reader.request /\ reader'.want = reader.want
                 /\ reader'.record = reader.record /\ reader'.image = reader.image
                 /\ reader'.since = reader.since /\ reader'.documents = reader.documents
                 /\ reader'.steady = steady
BY DEF Shape

\* The next recipe is asked from the start, if there is one.
LEMMA NextMoves ==
    ASSUME ReaderOK, ~At("idle"), NextCandidate
    PROVE  /\ Shape(reader') /\ reader'.request = reader.request /\ reader'.want = reader.want
           /\ reader'.steady = reader.steady
           /\ \/ /\ reader'.pc = "refused" /\ reader'.at = reader.at /\ reader'.since = reader.since
              \/ /\ reader'.pc = First(reader.request) /\ reader'.at \in Ids
                 /\ reader'.at = reader.at + 1 /\ reader.request # "tag"
                 /\ reader'.record = None /\ reader'.image = None /\ reader'.since = 0
<1>1. CASE Refuse
  BY <1>1, Moves DEF ReaderOK, Refuse
<1>2. CASE /\ reader.at # Len(Recipes) /\ reader.request # "tag"
           /\ reader' = [reader EXCEPT !.at = @ + 1, !.pc = First(reader.request),
                                       !.record = None, !.image = None, !.since = 0]
  <2>1. reader.at + 1 \in Ids
    BY <1>2, PublicationAssumption DEF ReaderOK, Ids
  <2> QED
    BY <1>2, <2>1 DEF ReaderOK, Shape
<1> QED
  BY <1>1, <1>2 DEF NextCandidate

LEMMA ReaderInit == Init => ReaderOK /\ FilesInv /\ SinceInv
<1> SUFFICES ASSUME reader = Idle PROVE ReaderOK /\ FilesInv /\ SinceInv
  BY DEF Init
<1>1. Shape(reader) /\ reader.pc = "idle" /\ reader.since = 0
  BY DEF Idle, Shape
<1> QED
  BY <1>1 DEF ReaderOK, FilesInv, SinceInv, At, Places, Referrers

\* A new request has found nothing yet.
LEMMA StartMoves ==
    ASSUME NEW request \in {"tag", "referrers", "manifest", "blob"}, NEW want, NEW at \in Ids,
           Start(request, want, at)
    PROVE  /\ Shape(reader') /\ reader'.pc = First(request) /\ reader'.request = request
           /\ reader'.want = want /\ reader'.at = at /\ reader'.image = None
           /\ reader'.since = 0 /\ reader'.steady = TRUE
<1>1. Shape(Idle) /\ Idle.since = 0 /\ Idle.image = None /\ Idle.steady = TRUE
  BY DEF Idle, Shape
<1>2. reader' = [Idle EXCEPT !.pc = First(request), !.request = request, !.want = want, !.at = at]
  BY DEF Start
<1> HIDE DEF Start
<1> QED
  BY <1>1, <1>2 DEF Shape

\* Imports, scans, statements and expiries leave the files there that a request relies on, and
\* its own place and findings as they are.
Grown ==
    /\ unreadable' = unreadable
    /\ \A q \in Ids : builds[q] \subseteq builds'[q] /\ scans[q] \subseteq scans'[q]
    /\ \A q \in Ids : \A b \in builds'[q] :
          \/ b \in builds[q]
          \/ Readable(BuildOf(q, b)) /\ ScansReadable(q, b)'
    /\ Shape(reader') /\ reader'.pc = reader.pc /\ reader'.at = reader.at
    /\ reader'.request = reader.request /\ reader'.want = reader.want
    /\ reader'.record = reader.record /\ reader'.image = reader.image
    /\ reader'.since = reader.since /\ reader'.documents = reader.documents

LEMMA ChangedMoves ==
    ASSUME Shape(reader), NEW rs, Changed(rs)
    PROVE  /\ Shape(reader') /\ reader'.pc = reader.pc /\ reader'.at = reader.at
           /\ reader'.request = reader.request /\ reader'.want = reader.want
           /\ reader'.record = reader.record /\ reader'.image = reader.image
           /\ reader'.since = reader.since /\ reader'.documents = reader.documents
BY Moves DEF Changed

LEMMA WritesGrow ==
    ASSUME StoreInv, Shape(reader),
           \/ Tick
           \/ \E r \in Ids : \/ FailBuild(r) \/ PostScan(r)
                             \/ \E l \in Layers, a \in Assessments : Import(r, l, a)
                             \/ \E s \in Statements : AddVex(r, s)
    PROVE  Grown
<1>1. /\ clock \in Nat
      /\ builds = [q \in Ids |-> builds[q]] /\ scans = [q \in Ids |-> scans[q]]
      /\ \A path \in unreadable : path[3] < clock /\ path[3] \in Nat
  BY DEF StoreInv, PathInv
<1>2. CASE Tick
  <2>1. UNCHANGED <<builds, scans, unreadable>> /\ Changed(Ids)
    BY <1>2 DEF Tick
  <2> QED
    BY <2>1, ChangedMoves DEF Grown
<1>3. ASSUME NEW r \in Ids, PostScan(r) PROVE Grown
  <2>1. /\ scans' = [scans EXCEPT ![r] = @ \cup {SourceScan(r, clock)}]
        /\ UNCHANGED <<builds, unreadable, reader>>
    BY <1>3 DEF PostScan
  <2>2. \A q \in Ids : scans[q] \subseteq scans'[q]
    BY <1>1, <2>1
  <2> QED
    BY <2>1, <2>2 DEF Grown
<1>4. ASSUME NEW r \in Ids, NEW s \in Statements, AddVex(r, s) PROVE Grown
  <2>1. UNCHANGED <<builds, scans, unreadable>> /\ Changed({r})
    BY <1>4 DEF AddVex
  <2> QED
    BY <2>1, ChangedMoves DEF Grown
<1>5. ASSUME NEW r \in Ids, FailBuild(r) \/ \E l \in Layers, a \in Assessments : Import(r, l, a)
      PROVE  Grown
  <2>1. PICK build, saved :
              /\ SaveEvidence(r, build, saved)
              /\ build.id = clock
              /\ \A s \in saved : s.id \in {clock, clock + 1}
              /\ \A id \in {build.source_scan_id, build.artifact_scan_id} \ {None} :
                    \E s \in saved : s.id = id
    BY <1>5, SavedTogether
  <2>2. /\ builds' = [builds EXCEPT ![r] = @ \cup {build}]
        /\ scans' = [scans EXCEPT ![r] = @ \cup saved]
        /\ unreadable' = unreadable
        /\ Changed({r})
    BY <2>1 DEF SaveEvidence
  <2>3. /\ \A q \in Ids : builds'[q] = IF q = r THEN builds[r] \cup {build} ELSE builds[q]
        /\ \A q \in Ids : scans'[q] = IF q = r THEN scans[r] \cup saved ELSE scans[q]
    BY <1>1, <2>2
  <2>4. Readable(BuildOf(r, build)) /\ \A s \in saved : Readable(ScanOf(r, s))
    <3>1. BuildOf(r, build)[3] = clock /\ \A s \in saved : ScanOf(r, s)[3] = s.id
      BY <2>1 DEF BuildOf, ScanOf, Path
    <3> QED
      BY <1>1, <2>1, <3>1 DEF Readable
  <2>5. ScansReadable(r, build)'
    <3> SUFFICES ASSUME NEW id \in {build.source_scan_id, build.artifact_scan_id} \ {None}
                 PROVE  \E s \in scans'[r] : s.id = id /\ ScanOf(r, s) \notin unreadable
      BY <2>2 DEF ScansReadable, Stored, Readable
    <3>1. PICK s \in saved : s.id = id
      BY <2>1
    <3> QED
      BY <2>3, <2>4, <3>1 DEF Readable
  <2>6. \A q \in Ids : builds[q] \subseteq builds'[q] /\ scans[q] \subseteq scans'[q]
    BY <2>3
  <2>7. \A q \in Ids : \A b \in builds'[q] :
           b \in builds[q] \/ (Readable(BuildOf(q, b)) /\ ScansReadable(q, b)')
    BY <2>3, <2>4, <2>5
  <2> QED
    BY <2>2, <2>6, <2>7, ChangedMoves DEF Grown
<1> QED
  BY <1>2, <1>3, <1>4, <1>5

LEMMA GrownKeeps ==
    ASSUME ReaderOK, FilesInv, SinceInv, Grown
    PROVE  ReaderOK' /\ FilesInv' /\ SinceInv'
<1>1. \A q \in Ids : BuildsReadable(q) => BuildsReadable(q)'
  BY DEF Grown, BuildsReadable, Readable
<1>2. \A q \in Ids : \A b : ScansReadable(q, b) => ScansReadable(q, b)'
  BY DEF Grown, ScansReadable, Stored, Readable
<1>3. \A q \in Ids : \A record : \A strictly \in BOOLEAN :
         NewerReadable(q, record, strictly) => NewerReadable(q, record, strictly)'
  <2> SUFFICES ASSUME NEW q \in Ids, NEW record, NEW strictly \in BOOLEAN,
                      NewerReadable(q, record, strictly), NEW b \in builds'[q]
               PROVE  \/ ScansReadable(q, b)'
                      \/ /\ record \in builds'[q]
                         /\ b.created_at <= record.created_at
                         /\ strictly => b # record
    BY DEF NewerReadable
  <2>1. CASE b \in builds[q]
    BY <1>2, <2>1 DEF Grown, NewerReadable
  <2>2. CASE b \notin builds[q]
    BY <2>2 DEF Grown
  <2> QED
    BY <2>1, <2>2
<1>4. ReaderOK'
  BY DEF Grown, ReaderOK, At
<1>5. FilesInv'
  <2>1. ASSUME ~At("idle") PROVE FilesInv'
    <3> DEFINE q == reader.at
    <3>1. q \in Ids /\ reader'.at = q
      BY <2>1 DEF ReaderOK, Grown
    <3>2. Readable(VexPath(q))' <=> Readable(VexPath(q))
      BY DEF Grown, Readable
    <3> HIDE DEF q
    <3> QED
      BY <1>1, <1>2, <1>3, <3>1, <3>2 DEF FilesInv, Grown, At, q
  <2>2. CASE At("idle")
    BY <2>2 DEF FilesInv, At, Grown
  <2> QED
    BY <2>1, <2>2
<1>6. SinceInv'
  BY DEF SinceInv, Grown, At, Referrers, ReaderOK
<1> QED
  BY <1>4, <1>5, <1>6

\* A request only reads.
LEMMA AsksRead == Ask \/ Answer => UNCHANGED evidence
BY DEF Ask, Answer, AskForTag, AskForReferrers, AskForManifest, AskForBlob, Start,
   SelectBlob, ReadBuilds, Judge, ChooseLayer, ListBuilds, Publish, Finish

LEMMA ReadKeepsFiles ==
    ASSUME UNCHANGED evidence
    PROVE  \A q \in Ids :
              /\ builds'[q] = builds[q]
              /\ BuildsReadable(q)' <=> BuildsReadable(q)
              /\ Readable(VexPath(q))' <=> Readable(VexPath(q))
              /\ \A b : ScansReadable(q, b)' <=> ScansReadable(q, b)
              /\ \A b : \A strictly \in BOOLEAN :
                    NewerReadable(q, b, strictly)' <=> NewerReadable(q, b, strictly)
BY DEF evidence, BuildsReadable, Readable, ScansReadable, Stored, NewerReadable

\* What metadata_gate has read: the newest record, and with it all that was imported before.
LEMMA ReadBuildsFiles ==
    ASSUME StoreInv, NEW r \in Ids, latest_build_evidence(r) # CorruptBuild
    PROVE  BuildsReadable(r) /\ NewerReadable(r, latest_build_evidence(r), FALSE)
<1>1. BuildsReadable(r)
  BY LatestReadable
<1> QED
  BY <1>1, LatestIsNewest DEF NewerReadable

\* The record that metadata_documents reads is the one judged or a later one.
LEMMA ListBuildsFiles ==
    ASSUME StoreInv, NEW r \in Ids, NEW record, BuildsReadable(r), builds[r] # {},
           NewerReadable(r, record, TRUE)
    PROVE  ScansReadable(r, latest_build_evidence(r))
<1> DEFINE latest == latest_build_evidence(r)
<1>1. latest \in builds[r] /\ \A c \in builds[r] : c.created_at <= latest.created_at
  BY LatestIsNewest
<1> HIDE DEF latest
<1> SUFFICES ASSUME ~ScansReadable(r, latest) PROVE FALSE
  BY DEF latest
<1>2. record \in builds[r] /\ latest.created_at <= record.created_at /\ latest # record
  BY <1>1 DEF NewerReadable
<1>3. \A b \in builds[r] : b.created_at \in Nat /\ b.created_at = b.id
  BY DEF StoreInv, BuildInv, IsBuild
<1>4. latest.id = record.id
  BY <1>1, <1>2, <1>3
<1> QED
  BY <1>1, <1>2, <1>4 DEF StoreInv, BuildInv

\* A record with a layer is the newest, and is on file.
LEMMA LayerIsNewest ==
    ASSUME StoreInv, NEW r \in Ids, HasLayer(latest_build_evidence(r))
    PROVE  /\ BuildsReadable(r)
           /\ latest_build_evidence(r) \in builds[r]
           /\ latest_build_evidence(r).created_at \in Nat
<1>1. latest_build_evidence(r) # CorruptBuild
  BY DEF HasLayer, CorruptBuild
<1>2. BuildsReadable(r)
  BY <1>1, LatestReadable
<1>3. builds[r] # {}
  BY <1>2 DEF HasLayer, latest_build_evidence, BuildsReadable
<1>4. latest_build_evidence(r) \in builds[r]
  BY <1>2, <1>3, LatestIsNewest
<1> QED
  BY <1>2, <1>4 DEF StoreInv, BuildInv, IsBuild

LEMMA AskKeeps ==
    ASSUME Ask
    PROVE  ReaderOK' /\ FilesInv' /\ SinceInv'
<1>1. PICK request \in {"tag", "referrers", "manifest", "blob"}, at \in Ids :
         \E want : Start(request, want, at)
  <2>1. 1 \in Ids
    BY PublicationAssumption DEF Ids
  <2> QED
    BY <2>1 DEF Ask, AskForTag, AskForReferrers, AskForManifest, AskForBlob
<1>2. /\ Shape(reader') /\ reader'.pc = First(request) /\ reader'.request = request
      /\ reader'.at = at /\ reader'.image = None /\ reader'.since = 0
  BY <1>1, StartMoves
<1> QED
  BY <1>2 DEF ReaderOK, FilesInv, SinceInv, At, First, Places, Referrers

\* The next candidate is gone to with nothing found.
LEMMA NextKeeps ==
    ASSUME ReaderOK, ~At("idle"), NextCandidate
    PROVE  ReaderOK' /\ FilesInv' /\ SinceInv'
<1>1. /\ Shape(reader') /\ reader'.request = reader.request
      /\ \/ reader'.pc = "refused" /\ reader'.at = reader.at /\ reader'.since = reader.since
         \/ /\ reader'.pc = First(reader.request) /\ reader'.at \in Ids
            /\ reader'.image = None /\ reader'.since = 0
  BY NextMoves
<1>2. CASE reader'.pc = "refused" /\ reader'.at = reader.at /\ reader'.since = reader.since
  BY <1>1, <1>2 DEF ReaderOK, FilesInv, SinceInv, At, Places, Referrers
<1>3. CASE /\ reader'.pc = First(reader.request) /\ reader'.at \in Ids
           /\ reader'.image = None /\ reader'.since = 0
  BY <1>1, <1>3 DEF ReaderOK, FilesInv, SinceInv, At, First, Places, Referrers
<1> QED
  BY <1>1, <1>2, <1>3

LEMMA RefuseKeeps ==
    ASSUME ReaderOK, ~At("idle"), Refuse
    PROVE  ReaderOK' /\ FilesInv' /\ SinceInv'
<1>1. /\ Shape(reader') /\ reader'.pc = "refused" /\ reader'.at = reader.at
      /\ reader'.since = reader.since
  BY Moves DEF ReaderOK, Refuse
<1> QED
  BY <1>1 DEF ReaderOK, FilesInv, SinceInv, At, Places, Referrers

LEMMA AnswerKeeps ==
    ASSUME RequestInv, Answer
    PROVE  ReaderOK' /\ FilesInv' /\ SinceInv'
<1>1. /\ StoreInv /\ ReaderOK /\ FilesInv /\ SinceInv /\ Shape(reader) /\ UNCHANGED evidence
      /\ ~At("idle")
  BY AsksRead DEF RequestInv, ReaderOK, Answer, SelectBlob, ReadBuilds, Judge, ChooseLayer,
     ListBuilds, Publish, Finish, At
<1>2. PICK r \in Ids : r = reader.at
  BY <1>1 DEF ReaderOK
<1>3. PICK latest : latest = latest_build_evidence(r)
  OBVIOUS
<1>4. /\ builds'[r] = builds[r]
      /\ BuildsReadable(r)' <=> BuildsReadable(r)
      /\ Readable(VexPath(r))' <=> Readable(VexPath(r))
      /\ \A b : ScansReadable(r, b)' <=> ScansReadable(r, b)
      /\ \A b : \A strictly \in BOOLEAN :
            NewerReadable(r, b, strictly)' <=> NewerReadable(r, b, strictly)
  BY <1>1, ReadKeepsFiles
<1>5. CASE SelectBlob
  <2>1. PICK image : reader' = [reader EXCEPT !.pc = "gate", !.image = image]
    BY <1>5 DEF SelectBlob
  <2>2. /\ Shape(reader') /\ reader'.pc = "gate" /\ reader'.at = r
        /\ reader'.request = reader.request /\ reader'.since = reader.since
    BY <1>1, <1>2, <2>1 DEF Shape
  <2>3. reader.request = "blob"
    BY <1>1, <1>5 DEF SelectBlob, ReaderOK, At
  <2> QED
    BY <1>1, <2>2, <2>3 DEF ReaderOK, FilesInv, SinceInv, At, Places, Referrers
<1>6. CASE ReadBuilds
  <2>1. reader' = [reader EXCEPT !.pc = "judge", !.record = latest]
    BY <1>2, <1>3, <1>6 DEF ReadBuilds, Candidate
  <2>2. /\ Shape(reader') /\ reader'.pc = "judge" /\ reader'.at = r /\ reader'.image = reader.image
        /\ reader'.request = reader.request /\ reader'.since = reader.since
        /\ reader'.record = latest
    BY <1>1, <1>2, <2>1 DEF Shape
  <2>3. reader.image # None => reader.request = "blob"
    BY <1>1, <1>6 DEF ReadBuilds, ReaderOK, At
  <2>4. latest # CorruptBuild => BuildsReadable(r)' /\ NewerReadable(r, latest, FALSE)'
    BY <1>1, <1>3, <1>4, ReadBuildsFiles
  <2>5. FilesInv'
    BY <2>2, <2>4 DEF FilesInv, At
  <2> QED
    BY <1>1, <2>2, <2>3, <2>5 DEF ReaderOK, SinceInv, At, Places, Referrers
<1>7. CASE Judge
  <2>1. CASE NextCandidate \/ Refuse
    BY <1>1, <2>1, NextKeeps, RefuseKeeps
  <2>2. CASE /\ GateAllows(r, reader.record)
             /\ IF reader.image = None THEN reader' = [reader EXCEPT !.pc = "layer"] ELSE Serve
    <3>1. PICK record : record = reader.record
      OBVIOUS
    <3>2. /\ Shape(reader') /\ reader'.pc \in {"layer", "served"} /\ reader'.at = r
          /\ reader'.request = reader.request /\ reader'.since = reader.since
          /\ reader'.record = record
          /\ reader'.pc = "served" => reader.image # None
      <4>1. PICK pc \in {"layer", "served"} :
               /\ reader' = [reader EXCEPT !.pc = pc]
               /\ pc = "served" => reader.image # None
        BY <2>2 DEF Serve
      <4> QED
        BY <1>1, <1>2, <3>1, <4>1 DEF Shape
    <3>3. record # CorruptBuild /\ ScansReadable(r, record) /\ Readable(VexPath(r))
      BY <2>2, <3>1, AllowedIsReadable
    <3>4. BuildsReadable(r) /\ NewerReadable(r, record, FALSE)
      <4>1. At("judge") /\ reader.at = r /\ reader.record = record
        BY <1>2, <1>7, <3>1 DEF Judge
      <4> QED
        BY <1>1, <3>3, <4>1 DEF FilesInv
    <3>5. NewerReadable(r, record, TRUE)
      BY <3>3, <3>4 DEF NewerReadable
    <3>6. FilesInv'
      BY <1>4, <3>2, <3>3, <3>4, <3>5 DEF FilesInv, At
    <3>7. reader'.pc = "served" => reader'.request = "blob"
      BY <1>1, <1>7, <3>2 DEF Judge, ReaderOK, At
    <3> QED
      BY <1>1, <3>2, <3>6, <3>7 DEF ReaderOK, SinceInv, At, Places, Referrers
  <2> QED
    BY <1>2, <1>7, <2>1, <2>2 DEF Judge, Candidate
<1>8. CASE ChooseLayer
  <2>1. CASE NextCandidate
    BY <1>1, <2>1, NextKeeps
  <2>2. CASE /\ HasLayer(latest)
             /\ reader' = [reader EXCEPT
                             !.pc = IF reader.request = "tag" THEN "served" ELSE "documents",
                             !.image = Image(r, latest.artifact.digest),
                             !.since = latest.created_at]
    <3>1. PICK record : record = reader.record
      OBVIOUS
    <3>2. /\ Shape(reader') /\ reader'.pc = IF reader.request = "tag" THEN "served" ELSE "documents"
          /\ reader'.at = r /\ reader'.request = reader.request
          /\ reader'.since = latest.created_at /\ reader'.record = record
      <4>1. PICK pc, image, since :
               /\ reader' = [reader EXCEPT !.pc = pc, !.image = image, !.since = since]
               /\ pc = IF reader.request = "tag" THEN "served" ELSE "documents"
               /\ since = latest.created_at
        BY <2>2
      <4>2. /\ Shape(reader') /\ reader'.pc = pc /\ reader'.at = reader.at
            /\ reader'.request = reader.request /\ reader'.since = since
            /\ reader'.record = reader.record
        BY <1>1, <4>1 DEF Shape
      <4> QED
        BY <1>2, <3>1, <4>1, <4>2
    <3>3. latest \in builds[r] /\ latest.created_at \in Nat
      BY <1>1, <1>3, <2>2, LayerIsNewest
    <3>4. /\ BuildsReadable(r) /\ Readable(VexPath(r)) /\ ScansReadable(r, record)
          /\ NewerReadable(r, record, TRUE)
      BY <1>1, <1>2, <1>8, <3>1 DEF FilesInv, ChooseLayer, At
    <3>5. FilesInv'
      BY <1>4, <3>2, <3>4 DEF FilesInv, At
    <3>6. SinceInv'
      <4>1. latest.created_at <= latest.created_at
        BY <3>3
      <4>2. reader'.pc = "documents" => \E b \in builds'[reader'.at] : reader'.since <= b.created_at
        BY <1>4, <3>2, <3>3, <4>1
      <4>3. ~At("publish")' /\ ~Referrers'
        BY <3>2 DEF At, Referrers
      <4> QED
        BY <4>2, <4>3 DEF SinceInv, At
    <3> QED
      BY <1>1, <3>2, <3>3, <3>5, <3>6 DEF ReaderOK, At, Places
  <2> QED
    BY <1>2, <1>3, <1>8, <2>1, <2>2 DEF ChooseLayer, Candidate
<1>9. CASE ListBuilds
  <2>1. reader' = [reader EXCEPT !.pc = "publish", !.record = latest]
    BY <1>2, <1>3, <1>9 DEF ListBuilds, Candidate
  <2>2. /\ Shape(reader') /\ reader'.pc = "publish" /\ reader'.at = r
        /\ reader'.request = reader.request /\ reader'.since = reader.since
        /\ reader'.record = latest
    BY <1>1, <1>2, <2>1 DEF Shape
  <2>3. /\ BuildsReadable(r) /\ Readable(VexPath(r)) /\ NewerReadable(r, reader.record, TRUE)
        /\ reader.since \in Nat /\ \E b \in builds[r] : reader.since <= b.created_at
    BY <1>1, <1>2, <1>9 DEF FilesInv, SinceInv, ReaderOK, ListBuilds, At
  <2>4. /\ latest \in builds[r] /\ \A c \in builds[r] : c.created_at <= latest.created_at
        /\ ScansReadable(r, latest)
    BY <1>1, <1>3, <2>3, LatestIsNewest, ListBuildsFiles
  <2>5. \A c \in builds[r] : c.created_at \in Nat
    BY <1>1 DEF StoreInv, BuildInv, IsBuild
  <2>6. reader.since <= latest.created_at
    BY <2>3, <2>4, <2>5
  <2>7. FilesInv'
    BY <1>4, <2>2, <2>3, <2>4 DEF FilesInv, At
  <2> QED
    BY <1>1, <2>2, <2>6, <2>7 DEF ReaderOK, SinceInv, At, Places, Referrers
<1>10. CASE Publish
  <2>1. CASE NextCandidate \/ Refuse
    BY <1>1, <2>1, NextKeeps, RefuseKeeps
  <2>2. ASSUME NEW documents,
               reader' = [reader EXCEPT !.pc = "served", !.documents = documents]
        PROVE  ReaderOK' /\ FilesInv' /\ SinceInv'
    <3>1. PICK record : record = reader.record
      OBVIOUS
    <3>2. /\ Shape(reader') /\ reader'.pc = "served" /\ reader'.at = r
          /\ reader'.request = reader.request /\ reader'.since = reader.since
          /\ reader'.record = record
      BY <1>1, <1>2, <2>2, <3>1 DEF Shape
    <3>3. BuildsReadable(r) /\ Readable(VexPath(r)) /\ ScansReadable(r, record)
      BY <1>1, <1>2, <1>10, <3>1 DEF FilesInv, Publish, At
    <3>4. FilesInv'
      BY <1>4, <3>2, <3>3 DEF FilesInv, At
    <3> QED
      BY <1>1, <1>10, <3>1, <3>2, <3>4 DEF ReaderOK, SinceInv, Publish, At, Places, Referrers
  <2> QED
    BY <1>10, <2>1, <2>2 DEF Publish
<1>11. CASE Finish
  <2>1. reader' = Idle
    BY <1>11 DEF Finish
  <2>2. Shape(Idle) /\ Idle.pc = "idle" /\ Idle.since = 0
    BY DEF Idle, Shape
  <2> QED
    BY <2>1, <2>2 DEF ReaderOK, FilesInv, SinceInv, At, Places, Referrers
<1> QED
  BY <1>5, <1>6, <1>7, <1>8, <1>9, <1>10, <1>11 DEF Answer

LEMMA PowerLossKeeps ==
    ASSUME NEW path, PowerLoss(path)
    PROVE  ReaderOK' /\ FilesInv' /\ SinceInv'
<1>1. reader' = Idle
  BY DEF PowerLoss
<1>2. Shape(Idle) /\ Idle.pc = "idle" /\ Idle.since = 0
  BY DEF Idle, Shape
<1> QED
  BY <1>1, <1>2 DEF ReaderOK, FilesInv, SinceInv, At, Places, Referrers

LEMMA RequestInvariant == Spec => []RequestInv
<1>1. Init => RequestInv
  BY InitStore, ReaderInit DEF RequestInv
<1>2. RequestInv /\ [Next]_vars => RequestInv'
  <2> SUFFICES ASSUME RequestInv, [Next]_vars PROVE RequestInv'
    OBVIOUS
  <2>1. StoreInv /\ StoreInv' /\ ReaderOK /\ FilesInv /\ SinceInv /\ Shape(reader)
    BY StoreStep DEF RequestInv, ReaderOK
  <2>2. CASE Ask
    BY <2>1, <2>2, AskKeeps DEF RequestInv
  <2>3. CASE Answer
    BY <2>1, <2>3, AnswerKeeps DEF RequestInv
  <2>4. CASE Write
    <3>1. CASE \E path \in unsynced : PowerLoss(path)
      BY <2>1, <3>1, PowerLossKeeps DEF RequestInv
    <3>2. CASE \/ Tick
               \/ \E r \in Ids : \/ FailBuild(r) \/ PostScan(r)
                                 \/ \E l \in Layers, a \in Assessments : Import(r, l, a)
                                 \/ \E s \in Statements : AddVex(r, s)
      BY <2>1, <3>2, WritesGrow, GrownKeeps DEF RequestInv
    <3> QED
      BY <2>4, <3>1, <3>2 DEF Write
  <2>5. CASE UNCHANGED vars
    <3>1. Grown
      BY <2>1, <2>5 DEF vars, Grown
    <3> QED
      BY <2>1, <3>1, GrownKeeps DEF RequestInv
  <2> QED
    BY <2>2, <2>3, <2>4, <2>5 DEF Next
<1> QED
  BY <1>1, <1>2, PTL DEF Spec

\* metadata_documents lists the builds again after latest_materialized_layer has chosen the
\* layer: whatever is imported in between, the documents of an index of referrers are not
\* about an older record than its subject (app.rs, oci_referrers_response).
THEOREM DocumentsAreNotOlder == Spec => []DocumentsNotOlder
<1>1. RequestInv => DocumentsNotOlder
  BY DEF RequestInv, SinceInv, DocumentsNotOlder
<1> QED
  BY <1>1, RequestInvariant, PTL

\* list_builds puts a failed record in the place of an unreadable one, list_vex fails, and a
\* scan that a record is bound to must be there and readable: nothing is served of a recipe
\* while one of these files is corrupt, nor of a record that lacks a scan.  It says nothing of
\* a record or a statement that is lost altogether.
THEOREM CorruptFilesFailClosed == Spec => []UnreadableIsNotServed
<1>1. RequestInv => UnreadableIsNotServed
  BY DEF RequestInv, FilesInv, At, UnreadableIsNotServed, BuildsReadable, ScansReadable
<1> QED
  BY <1>1, RequestInvariant, PTL

-----------------------------------------------------------------------------
(***************************************************************************)
(* What an answer has named, as long as the evidence stays as it is.       *)
(***************************************************************************)

\* The newest record of the recipe has a layer, and the gate allows it.
Standing(r, b) ==
    /\ b \in builds[r] /\ b = latest_build_evidence(r)
    /\ HasLayer(b) /\ GateAllows(r, b)

ImageOf(r, b) == Image(r, b.artifact.digest)

Vouched(d) ==
    /\ d.recipe \in Ids
    /\ \E b \in builds[d.recipe] :
          /\ Standing(d.recipe, b)
          /\ d \in NamedByImage(ImageOf(d.recipe, b))
                   \cup NamedByReferrers(ImageOf(d.recipe, b), metadata_documents(d.recipe, b))

ToldInv == \A d \in told : Vouched(d)

\* Requests for what was named, and the recipe that a tag or a subject stands for.
WantInv ==
    ~At("idle") =>
        /\ reader.request \in {"tag", "referrers", "manifest", "blob"}
        /\ reader.request = "tag" => reader.at = reader.want.recipe
        /\ reader.request = "blob" => reader.want.type \notin {"image", "artifact"}
        /\ reader.request = "manifest" => reader.want.type \in {"image", "artifact"}
        /\ reader.request \in {"tag", "referrers"} => reader.want.type = "image"
        /\ reader.request = "referrers" /\ reader.pc \in {"documents", "publish", "served"} =>
              reader.at = reader.want.recipe
        /\ reader.request # "tag" /\ reader.want \in told => reader.steady

\* What a request has read of the recipe it is about still is so.
SteadyInv ==
    ~At("idle") /\ reader.steady /\ reader.at = reader.want.recipe =>
        /\ reader.pc \in {"judge", "layer"} => reader.record = latest_build_evidence(reader.at)
        /\ At("layer") /\ HasLayer(reader.record) => Standing(reader.at, reader.record)
        /\ At("documents") \/ (At("served") /\ reader.request = "tag") =>
              \E b \in builds[reader.at] :
                 Standing(reader.at, b) /\ reader.image = ImageOf(reader.at, b)
        /\ At("publish") \/ Referrers =>
              Standing(reader.at, reader.record) /\ reader.image = ImageOf(reader.at, reader.record)
        /\ Referrers => reader.documents = metadata_documents(reader.at, reader.record)

Searching == {"select", "gate", "judge", "layer", "documents", "publish"}

\* A request by digest for what was named.
Sought ==
    /\ ~At("idle") /\ reader.request \in {"blob", "manifest"}
    /\ reader.want \in told /\ reader.want.type # "image"

\* It does not pass by the recipe it was named for; the documents are looked at last.
SearchInv ==
    Sought =>
        /\ reader.pc \in Searching => reader.at <= reader.want.recipe
        /\ reader.pc \in {"gate", "judge"} /\ reader.image # None =>
              /\ IsBlobOf(reader.want, reader.image)
              /\ reader.image = Image(reader.at, reader.image.layer)
        /\ reader.pc \in {"layer", "documents", "publish"}
              \/ (reader.pc \in {"gate", "judge"} /\ reader.image = None) =>
              (reader.at = reader.want.recipe => reader.want.type \notin {"config", "layer"})
        /\ At("refused") => DeniedByNamesake(reader.want)

NamingInv == ToldInv /\ WantInv /\ SteadyInv /\ SearchInv

-----------------------------------------------------------------------------
\* A standing record has the inspection it is bound to.
LEMMA StandingScan ==
    ASSUME StoreInv, NEW r \in Ids, NEW b, Standing(r, b)
    PROVE  /\ IsBuild(r, b) /\ b # None /\ b.status = "succeeded" /\ b.artifact_scan_id = b.id + 1
           /\ b.artifact # None /\ b.artifact_scan_id # None
           /\ load_decision_scan(r, b) \in scans[r]
           /\ load_decision_scan(r, b).id = b.artifact_scan_id
           /\ load_decision_scan(r, b) # None
           /\ load_decision_scan(r, b).layers = {b.artifact.digest}
           /\ ~EvidenceFails(r, b) /\ ~source_scan_binding_error(r, b)
           /\ ~Denies(Recipes[r], b, load_decision_scan(r, b), vex[r], now)
<1>1. /\ b \in builds[r] /\ b # None /\ b.status = "succeeded" /\ b.artifact # None
      /\ IsBuild(r, b)
  BY DEF Standing, HasLayer, StoreInv, BuildInv
<1>2. b.artifact_scan_id = b.id + 1 /\ b.artifact_scan_id # None
  BY <1>1, PublicationAssumption DEF IsBuild
<1>3. /\ ~EvidenceFails(r, b) /\ ~source_scan_binding_error(r, b)
      /\ ~Denies(Recipes[r], b, load_decision_scan(r, b), vex[r], now)
  BY DEF Standing, GateAllows, evaluate_gate
<1>4. \E s \in scans[r] : s.id = b.artifact_scan_id
  BY <1>1, <1>2, <1>3 DEF EvidenceFails, BoundScanMissing, Stored
<1>5. load_decision_scan(r, b) = CHOOSE s \in scans[r] : s.id = b.artifact_scan_id
  BY <1>1, <1>2 DEF load_decision_scan
<1>6. load_decision_scan(r, b) \in scans[r] /\ load_decision_scan(r, b).id = b.artifact_scan_id
  BY <1>4, <1>5
<1>7. load_decision_scan(r, b) # None
  <2>1. ~ScanDefect("slsa-missing-scan-evidence", Recipes[r], load_decision_scan(r, b))
    BY <1>3 DEF Denies, slsa_policy_findings, SlsaCategories
  <2> QED
    BY <2>1 DEF ScanDefect
<1>8. load_decision_scan(r, b).layers = {b.artifact.digest}
  BY <1>1, <1>6 DEF StoreInv, ScanInv
<1> QED
  BY <1>1, <1>2, <1>3, <1>6, <1>7, <1>8

\* Nothing that happens elsewhere, and no posted scan, changes what stands and its documents.
LEMMA StandingStays ==
    ASSUME StoreInv, StoreInv', NEW r \in Ids, NEW b, Standing(r, b),
           builds'[r] = builds[r], scans[r] \subseteq scans'[r], vex'[r] = vex[r],
           now' = now, unreadable' = unreadable
    PROVE  Standing(r, b)' /\ metadata_documents(r, b)' = metadata_documents(r, b)
<1>1. /\ IsBuild(r, b) /\ b # None /\ b.artifact_scan_id # None
      /\ load_decision_scan(r, b) \in scans[r]
      /\ load_decision_scan(r, b).id = b.artifact_scan_id
      /\ ~EvidenceFails(r, b) /\ ~source_scan_binding_error(r, b)
  BY StandingScan
<1>2. \A s, t \in scans'[r] : s.id = t.id => s = t
  BY DEF StoreInv, ScanInv
<1>3. latest_build_evidence(r)' = latest_build_evidence(r)
  BY DEF latest_build_evidence, Readable
<1>4. load_decision_scan(r, b)' = load_decision_scan(r, b)
  <2>1. load_decision_scan(r, b)' = CHOOSE s \in scans'[r] : s.id = b.artifact_scan_id
    BY <1>1 DEF load_decision_scan
  <2>2. PICK scan : scan = load_decision_scan(r, b)
    OBVIOUS
  <2>3. scan \in scans'[r] /\ scan.id = b.artifact_scan_id
    BY <1>1, <2>2
  <2>4. PICK other : other = CHOOSE s \in scans'[r] : s.id = b.artifact_scan_id
    OBVIOUS
  <2>5. other \in scans'[r] /\ other.id = b.artifact_scan_id
    BY <2>3, <2>4
  <2> QED
    BY <1>2, <2>1, <2>2, <2>3, <2>4, <2>5
<1>5. ~EvidenceFails(r, b)'
  BY <1>1 DEF EvidenceFails, BoundScanMissing, Stored, Readable
<1>6. ~source_scan_binding_error(r, b)'
  BY <1>1 DEF source_scan_binding_error, Stored, Readable
<1>7. HasLayer(b)' <=> HasLayer(b)
  BY DEF HasLayer
<1>8. GateAllows(r, b)'
  BY <1>4, <1>5, <1>6 DEF Standing, GateAllows
<1>9. metadata_documents(r, b)' = metadata_documents(r, b)
  <2>1. source_scan_binding_error(r, b) = FALSE /\ source_scan_binding_error(r, b)' = FALSE
    <3>1. /\ source_scan_binding_error(r, b) \in BOOLEAN
          /\ source_scan_binding_error(r, b)' \in BOOLEAN
      BY DEF source_scan_binding_error
    <3> QED
      BY <1>1, <1>6, <3>1
  <2> QED
    BY <1>4, <2>1 DEF metadata_documents
<1> QED
  BY <1>3, <1>7, <1>8, <1>9 DEF Standing

\* Recipe and type of what is named.
LEMMA NamedTypes ==
    ASSUME NEW r \in Ids, NEW b
    PROVE  /\ \A d \in metadata_documents(r, b) :
                 /\ d.recipe = r
                 /\ d.type \in {"sbom", "cbom", "openvex", "slsa", "attestation"}
           /\ \A d \in NamedByImage(ImageOf(r, b)) :
                 d.recipe = r /\ d.type \in {"image", "config", "layer"}
           /\ \A d \in NamedByReferrers(ImageOf(r, b), metadata_documents(r, b)) :
                 /\ d.recipe = r
                 /\ \/ d.type = "artifact"
                    \/ d \in metadata_documents(r, b)
<1>1. \A d \in metadata_documents(r, b) :
         /\ d.recipe = r
         /\ d.type \in {"sbom", "cbom", "openvex", "slsa", "attestation"}
  <2>1. Recipes[r].digest = r
    BY PublicationAssumption DEF Ids
  <2> QED
    BY <2>1 DEF metadata_documents, documents_of, sbom_of, cbom_of, sbom_document, cbom_document,
       openvex_document, verified_slsa_provenance_document, slsa_provenance_document,
       attestation_document
<1>2. \A d \in NamedByImage(ImageOf(r, b)) : d.recipe = r /\ d.type \in {"image", "config", "layer"}
  BY DEF NamedByImage, ImageOf, Image, Config, Layer
<1>3. \A d \in NamedByReferrers(ImageOf(r, b), metadata_documents(r, b)) :
         /\ d.recipe = r
         /\ \/ d.type = "artifact"
            \/ d \in metadata_documents(r, b)
  BY <1>1 DEF NamedByReferrers, Artifact
<1> QED
  BY <1>1, <1>2, <1>3

\* The documents of what stands agree with the verdict.
LEMMA StandingAgrees ==
    ASSUME StoreInv, NEW r \in Ids, NEW b, Standing(r, b)
    PROVE  LET documents == metadata_documents(r, b)
           IN  /\ \E d \in documents :
                     /\ d.type = "slsa" /\ d.artifact = b.artifact.digest
                     /\ d.scan = b.artifact_scan_id /\ d.findings = {}
                     /\ \A i \in DOMAIN d.byproducts : d.byproducts[i] \in documents
               /\ \A d \in documents : d.type = "openvex" =>
                     \A s \in d.statements : s.status \notin Open
<1> DEFINE recipe == Recipes[r]
<1>1. PICK scan : scan = load_decision_scan(r, b)
  OBVIOUS
<1>2. /\ b # None /\ b.artifact # None /\ b.artifact_scan_id # None
      /\ scan # None /\ scan.id = b.artifact_scan_id /\ scan.layers = {b.artifact.digest}
      /\ ~source_scan_binding_error(r, b)
      /\ ~Denies(recipe, b, scan, vex[r], now)
  BY <1>1, StandingScan
<1>3. PICK statements : statements = combined_vex_statements(recipe, scan, vex[r], now)
  OBVIOUS
<1> DEFINE slsa == slsa_provenance_document(recipe, b, scan, statements)
<1>4. metadata_documents(r, b) =
         {sbom_of(recipe, scan), cbom_of(recipe, scan), openvex_document(recipe, statements),
          slsa, attestation_document(recipe, b, statements)}
  <2>1. verified_slsa_provenance_document(recipe, b, scan, statements, source_scan_binding_error(r, b))
           = slsa
    BY <1>2 DEF verified_slsa_provenance_document
  <2> HIDE DEF slsa, recipe
  <2>2. metadata_documents(r, b) = documents_of(recipe, b, scan, vex[r], now, source_scan_binding_error(r, b))
    BY <1>1 DEF metadata_documents, recipe
  <2> QED
    BY <1>3, <2>1, <2>2 DEF documents_of
<1>5. /\ slsa.type = "slsa" /\ slsa.artifact = b.artifact.digest /\ slsa.scan = b.artifact_scan_id
      /\ slsa.findings = {}
      /\ slsa.byproducts = <<sbom_of(recipe, scan), cbom_of(recipe, scan),
                             openvex_document(recipe, statements)>>
  BY <1>2 DEF slsa_provenance_document, Denies
<1>6. \A i \in DOMAIN slsa.byproducts : slsa.byproducts[i] \in metadata_documents(r, b)
  <2> HIDE DEF slsa
  <2> QED
    BY <1>4, <1>5
<1>7. \A s \in statements : s.status \notin Open
  <2>1. vex[r] \in Seq({s \in Statements : Posted(recipe, s)})
    BY DEF StoreInv, VexInv
  <2>2. Len(vex[r]) \in Nat /\ \A i \in 1..Len(vex[r]) : Posted(recipe, vex[r][i])
    BY <2>1
  <2> HIDE DEF recipe
  <2> QED
    BY <1>2, <1>3, <2>2, AllowedIsClosed
<1>8. \A d \in metadata_documents(r, b) : d.type = "openvex" => d.statements = statements
  BY <1>4, <1>5 DEF sbom_of, cbom_of, sbom_document, cbom_document, openvex_document, attestation_document
<1> HIDE DEF slsa
<1> QED
  BY <1>4, <1>5, <1>6, <1>7, <1>8

\* The SBOM of what stands is the one at the endpoint, as long as no other scan is newer.
LEMMA StandingSbom ==
    ASSUME StoreInv, NEW r \in Ids, NEW b, Standing(r, b),
           NEW d \in metadata_documents(r, b), d.type = "sbom"
    PROVE  \/ get_sbom(r) = d
           \/ \E s \in scans[r] : s.created_at > d.about \/ ~Readable(ScanOf(r, s))
<1>1. PICK scan : scan = load_decision_scan(r, b)
  OBVIOUS
<1>2. scan \in scans[r] /\ scan # None
  BY <1>1, StandingScan
<1>3. \A s \in scans[r] : s.created_at = s.id /\ s.id \in Nat
  BY DEF StoreInv, ScanInv
<1>4. d = sbom_of(Recipes[r], scan)
  BY <1>1 DEF metadata_documents, documents_of, sbom_of, cbom_of, sbom_document, cbom_document,
     openvex_document, verified_slsa_provenance_document, slsa_provenance_document,
     attestation_document
<1>5. d.about = scan.created_at
  BY <1>2, <1>3, <1>4 DEF sbom_of
<1> SUFFICES ASSUME \A s \in scans[r] : ~(s.created_at > d.about) /\ Readable(ScanOf(r, s))
             PROVE  get_sbom(r) = d
  OBVIOUS
<1>6. PICK latest : latest = latest_scan(r)
  OBVIOUS
<1>7. latest \in scans[r] /\ scan.created_at <= latest.created_at
  BY <1>2, <1>6, LatestScanIsNewest
<1>8. latest.id = scan.id
  BY <1>2, <1>3, <1>5, <1>7
<1>9. latest = scan
  BY <1>2, <1>7, <1>8 DEF StoreInv, ScanInv
<1> QED
  BY <1>4, <1>6, <1>9 DEF get_sbom

-----------------------------------------------------------------------------
\* A write leaves the other recipes alone, and those who ask for them.
ChangesOnly(rs) ==
    /\ told' = {d \in told : d.recipe \notin rs}
    /\ ~At("idle") => (reader'.steady <=> (reader.steady /\ reader.want.recipe \notin rs))
    /\ \A q \in Ids : q \notin rs =>
          /\ builds'[q] = builds[q] /\ scans[q] \subseteq scans'[q] /\ vex'[q] = vex[q]
          /\ now' = now /\ unreadable' = unreadable

LEMMA WriteEffect ==
    ASSUME StoreInv, Shape(reader),
           \/ Tick
           \/ \E r \in Ids : \/ FailBuild(r) \/ PostScan(r)
                             \/ \E l \in Layers, a \in Assessments : Import(r, l, a)
                             \/ \E s \in Statements : AddVex(r, s)
    PROVE  \E rs : ChangesOnly(rs)
<1>1. /\ builds = [q \in Ids |-> builds[q]] /\ scans = [q \in Ids |-> scans[q]]
      /\ vex = [q \in Ids |-> vex[q]]
  BY DEF StoreInv
<1>2. ASSUME NEW rs, Changed(rs),
             \A q \in Ids : q \notin rs =>
                    /\ builds'[q] = builds[q] /\ scans[q] \subseteq scans'[q] /\ vex'[q] = vex[q]
                    /\ now' = now /\ unreadable' = unreadable
      PROVE  \E qs : ChangesOnly(qs)
  <2>1. ~At("idle") => reader' = [reader EXCEPT !.steady = @ /\ reader.want.recipe \notin rs]
    BY <1>2 DEF Changed
  <2>2. ~At("idle") => (reader'.steady <=> (reader.steady /\ reader.want.recipe \notin rs))
    BY <2>1 DEF Shape
  <2>3. told' = {d \in told : d.recipe \notin rs}
    BY <1>2 DEF Changed
  <2>4. ChangesOnly(rs)
    BY <1>2, <2>2, <2>3 DEF ChangesOnly
  <2> QED
    BY <2>4
<1>3. CASE Tick
  <2>1. Changed(Ids)
    BY <1>3 DEF Tick
  <2> QED
    BY <1>2, <2>1
<1>4. ASSUME NEW r \in Ids, NEW s \in Statements, AddVex(r, s)
      PROVE  Changed({r}) /\ \A q \in Ids : q \notin {r} =>
                /\ builds'[q] = builds[q] /\ scans[q] \subseteq scans'[q] /\ vex'[q] = vex[q]
                /\ now' = now /\ unreadable' = unreadable
  BY <1>1, <1>4 DEF AddVex
<1>5. ASSUME NEW r \in Ids, NEW build, NEW saved, SaveEvidence(r, build, saved)
      PROVE  Changed({r}) /\ \A q \in Ids : q \notin {r} =>
                /\ builds'[q] = builds[q] /\ scans[q] \subseteq scans'[q] /\ vex'[q] = vex[q]
                /\ now' = now /\ unreadable' = unreadable
  BY <1>1, <1>5 DEF SaveEvidence
<1>6. ASSUME NEW r \in Ids, PostScan(r)
      PROVE  \E qs : ChangesOnly(qs)
  <2>1. /\ scans' = [scans EXCEPT ![r] = @ \cup {SourceScan(r, clock)}]
        /\ UNCHANGED <<builds, vex, unreadable, now, reader, told>>
    BY <1>6 DEF PostScan
  <2>2. \A q \in Ids : scans[q] \subseteq scans'[q]
    BY <1>1, <2>1
  <2>3. told' = {d \in told : d.recipe \notin {}}
    BY <2>1
  <2>4. ChangesOnly({})
    BY <2>1, <2>2, <2>3 DEF ChangesOnly
  <2> QED
    BY <2>4
<1> QED
  BY <1>2, <1>3, <1>4, <1>5, <1>6 DEF FailBuild, Import

LEMMA WritesKeepNames ==
    ASSUME RequestInv, StoreInv', NamingInv,
           \/ Tick
           \/ \E r \in Ids : \/ FailBuild(r) \/ PostScan(r)
                             \/ \E l \in Layers, a \in Assessments : Import(r, l, a)
                             \/ \E s \in Statements : AddVex(r, s)
    PROVE  NamingInv'
<1>1. /\ StoreInv /\ ReaderOK /\ Shape(reader)
      /\ ToldInv /\ WantInv /\ SteadyInv /\ SearchInv
  BY DEF RequestInv, ReaderOK, NamingInv
<1>2. Grown
  BY <1>1, WritesGrow
<1>3. PICK rs :
         /\ told' = {d \in told : d.recipe \notin rs}
         /\ ~At("idle") => (reader'.steady <=> (reader.steady /\ reader.want.recipe \notin rs))
         /\ \A q \in Ids : q \notin rs =>
               /\ builds'[q] = builds[q] /\ scans[q] \subseteq scans'[q] /\ vex'[q] = vex[q]
               /\ now' = now /\ unreadable' = unreadable
  BY <1>1, WriteEffect DEF ChangesOnly
<1>4. \A q \in Ids : q \notin rs =>
         /\ latest_build_evidence(q)' = latest_build_evidence(q)
         /\ \A b : HasLayer(b)' <=> HasLayer(b)
         /\ \A b : Standing(q, b) =>
               Standing(q, b)' /\ metadata_documents(q, b)' = metadata_documents(q, b)
  <2> SUFFICES ASSUME NEW q \in Ids, q \notin rs
               PROVE  /\ latest_build_evidence(q)' = latest_build_evidence(q)
                      /\ \A b : HasLayer(b)' <=> HasLayer(b)
                      /\ \A b : Standing(q, b) =>
                            Standing(q, b)' /\ metadata_documents(q, b)' = metadata_documents(q, b)
    OBVIOUS
  <2>1. /\ builds'[q] = builds[q] /\ scans[q] \subseteq scans'[q] /\ vex'[q] = vex[q]
        /\ now' = now /\ unreadable' = unreadable
    BY <1>3
  <2>2. latest_build_evidence(q)' = latest_build_evidence(q)
    BY <2>1 DEF latest_build_evidence, Readable
  <2>3. \A b : HasLayer(b)' <=> HasLayer(b)
    BY <2>1 DEF HasLayer
  <2> QED
    BY <1>1, <2>1, <2>2, <2>3, StandingStays
<1>5. ToldInv'
  <2> SUFFICES ASSUME NEW d \in told' PROVE Vouched(d)'
    BY DEF ToldInv
  <2>1. d \in told /\ d.recipe \notin rs /\ Vouched(d)
    BY <1>1, <1>3 DEF ToldInv
  <2>2. PICK r \in Ids : r = d.recipe
    BY <2>1 DEF Vouched
  <2>3. PICK b \in builds[r] :
           /\ Standing(r, b)
           /\ d \in NamedByImage(ImageOf(r, b))
                    \cup NamedByReferrers(ImageOf(r, b), metadata_documents(r, b))
    BY <2>1, <2>2 DEF Vouched
  <2>4. Standing(r, b)' /\ metadata_documents(r, b)' = metadata_documents(r, b) /\ b \in builds'[r]
    BY <1>3, <1>4, <2>1, <2>2, <2>3
  <2> QED
    BY <2>2, <2>3, <2>4 DEF Vouched
<1>6. WantInv'
  BY <1>1, <1>2, <1>3 DEF WantInv, Grown, At
<1>7. SteadyInv'
  <2> SUFFICES ASSUME ~At("idle"), reader'.steady, reader.at = reader.want.recipe PROVE SteadyInv'
    BY <1>2 DEF SteadyInv, Grown, At
  <2>1. reader.steady /\ reader.at \in Ids /\ reader.at \notin rs
    BY <1>1, <1>3 DEF ReaderOK
  <2>2. PICK r \in Ids : r = reader.at
    BY <2>1
  <2>3. PICK record : record = reader.record
    OBVIOUS
  <2>4. builds'[r] = builds[r]
    BY <1>3, <2>1, <2>2
  <2>5. PICK pc, request, image, documents :
           /\ pc = reader.pc /\ request = reader.request /\ image = reader.image
           /\ documents = reader.documents
    OBVIOUS
  <2>6. /\ reader'.pc = pc /\ reader'.request = request /\ reader'.image = image
        /\ reader'.documents = documents /\ reader'.record = record /\ reader'.at = r
    BY <1>2, <2>2, <2>3, <2>5 DEF Grown
  <2>7. /\ pc \in {"judge", "layer"} => record = latest_build_evidence(r)
        /\ pc = "layer" /\ HasLayer(record) => Standing(r, record)
        /\ pc = "documents" \/ (pc = "served" /\ request = "tag") =>
              \E b \in builds[r] : Standing(r, b) /\ image = ImageOf(r, b)
        /\ pc = "publish" \/ (pc = "served" /\ request = "referrers") =>
              Standing(r, record) /\ image = ImageOf(r, record)
        /\ pc = "served" /\ request = "referrers" => documents = metadata_documents(r, record)
    BY <1>1, <2>1, <2>2, <2>3, <2>5 DEF SteadyInv, At, Referrers
  <2>8. /\ pc \in {"judge", "layer"} => record = latest_build_evidence(r)'
        /\ pc = "layer" /\ HasLayer(record)' => Standing(r, record)'
        /\ pc = "documents" \/ (pc = "served" /\ request = "tag") =>
              \E b \in builds'[r] : Standing(r, b)' /\ image = ImageOf(r, b)
        /\ pc = "publish" \/ (pc = "served" /\ request = "referrers") =>
              Standing(r, record)' /\ image = ImageOf(r, record)
        /\ pc = "served" /\ request = "referrers" => documents = metadata_documents(r, record)'
    BY <1>4, <2>1, <2>2, <2>4, <2>7
  <2> QED
    BY <2>6, <2>8 DEF SteadyInv, At, Referrers
<1>8. SearchInv'
  BY <1>1, <1>2, <1>3 DEF SearchInv, Sought, Grown, At, DeniedByNamesake
<1> QED
  BY <1>5, <1>6, <1>7, <1>8 DEF NamingInv

\* Nor does a read change anything.
LEMMA ReadKeepsStanding ==
    ASSUME UNCHANGED evidence
    PROVE  /\ \A q \in Ids :
                 /\ builds'[q] = builds[q]
                 /\ latest_build_evidence(q)' = latest_build_evidence(q)
                 /\ \A b : HasLayer(b)' <=> HasLayer(b)
                 /\ \A b : Standing(q, b)' <=> Standing(q, b)
                 /\ \A b : metadata_documents(q, b)' = metadata_documents(q, b)
           /\ \A d : Vouched(d) => Vouched(d)'
<1>1. builds' = builds /\ scans' = scans /\ vex' = vex /\ unreadable' = unreadable /\ now' = now
  BY DEF evidence
<1>2. ASSUME NEW q \in Ids
      PROVE  /\ builds'[q] = builds[q]
             /\ latest_build_evidence(q)' = latest_build_evidence(q)
             /\ \A b : HasLayer(b)' <=> HasLayer(b)
             /\ \A b : Standing(q, b)' <=> Standing(q, b)
             /\ \A b : metadata_documents(q, b)' = metadata_documents(q, b)
  <2>1. latest_build_evidence(q)' = latest_build_evidence(q)
    BY <1>1 DEF latest_build_evidence, Readable
  <2>2. \A b : HasLayer(b)' <=> HasLayer(b)
    BY <1>1 DEF HasLayer
  <2>3. \A b : load_decision_scan(q, b)' = load_decision_scan(q, b)
    BY <1>1 DEF load_decision_scan, latest_scan, Readable
  <2>4. \A b : EvidenceFails(q, b)' <=> EvidenceFails(q, b)
    BY <1>1 DEF EvidenceFails, BoundScanMissing, Stored, Readable
  <2>5. \A b : source_scan_binding_error(q, b)' = source_scan_binding_error(q, b)
    BY <1>1 DEF source_scan_binding_error, Stored, Readable
  <2>6. \A b : GateAllows(q, b)' <=> GateAllows(q, b)
    BY <1>1, <2>3, <2>4, <2>5 DEF GateAllows
  <2>7. \A b : metadata_documents(q, b)' = metadata_documents(q, b)
    BY <1>1, <2>3, <2>5 DEF metadata_documents
  <2>8. \A b : Standing(q, b)' <=> Standing(q, b)
    BY <1>1, <2>1, <2>2, <2>6 DEF Standing
  <2> QED
    BY <1>1, <2>1, <2>2, <2>7, <2>8
<1>3. ASSUME NEW d, Vouched(d) PROVE Vouched(d)'
  <2>1. PICK r \in Ids : r = d.recipe
    BY <1>3 DEF Vouched
  <2>2. PICK b \in builds[r] :
           /\ Standing(r, b)
           /\ d \in NamedByImage(ImageOf(r, b))
                    \cup NamedByReferrers(ImageOf(r, b), metadata_documents(r, b))
    BY <1>3, <2>1 DEF Vouched
  <2>3. Standing(r, b)' /\ metadata_documents(r, b)' = metadata_documents(r, b) /\ b \in builds'[r]
    BY <1>2, <2>2
  <2> QED
    BY <2>1, <2>2, <2>3 DEF Vouched
<1> QED
  BY <1>2, <1>3

LEMMA AskKeepsNames ==
    ASSUME NamingInv, Ask
    PROVE  NamingInv'
<1>1. told' = told /\ UNCHANGED evidence
  BY AsksRead DEF Ask, AskForTag, AskForReferrers, AskForManifest, AskForBlob, Start
<1>2. ToldInv'
  BY <1>1, ReadKeepsStanding DEF NamingInv, ToldInv
<1>3. PICK request \in {"tag", "referrers", "manifest", "blob"}, at \in Ids :
         \E want :
            /\ Start(request, want, at)
            /\ request = "tag" => at = want.recipe /\ want.type = "image"
            /\ request # "tag" => want \in told /\ at = 1
            /\ request = "referrers" => want.type = "image"
            /\ request = "manifest" => want.type \in {"image", "artifact"}
            /\ request = "blob" => want.type \notin {"image", "artifact"}
  <2>1. 1 \in Ids
    BY PublicationAssumption DEF Ids
  <2>2. \A r : Image(r, None).recipe = r /\ Image(r, None).type = "image"
    BY DEF Image
  <2> QED
    BY <2>1, <2>2 DEF Ask, AskForTag, AskForReferrers, AskForManifest, AskForBlob
<1>4. PICK want :
            /\ Start(request, want, at)
            /\ request = "tag" => at = want.recipe /\ want.type = "image"
            /\ request # "tag" => want \in told /\ at = 1
            /\ request = "referrers" => want.type = "image"
            /\ request = "manifest" => want.type \in {"image", "artifact"}
            /\ request = "blob" => want.type \notin {"image", "artifact"}
  BY <1>3
<1>5. /\ reader'.pc = First(request) /\ reader'.request = request /\ reader'.want = want
      /\ reader'.at = at /\ reader'.image = None /\ reader'.steady = TRUE
  BY <1>4, StartMoves
<1>6. WantInv'
  BY <1>4, <1>5 DEF WantInv, At, First
<1>7. SteadyInv'
  BY <1>5 DEF SteadyInv, At, First, Referrers
<1>8. SearchInv'
  <2>1. request # "tag" => 1 <= want.recipe
    <3>1. request # "tag" => want.recipe \in Ids
      BY <1>4 DEF NamingInv, ToldInv, Vouched
    <3> QED
      BY <3>1, PublicationAssumption DEF Ids
  <2>2. reader'.pc \in {"select", "gate"} /\ (reader'.pc = "select" <=> request = "blob")
    BY <1>5 DEF First
  <2> QED
    BY <1>4, <1>5, <2>1, <2>2 DEF SearchInv, Sought, At
<1> QED
  BY <1>2, <1>6, <1>7, <1>8 DEF NamingInv

\* A request for something that was named finds its recipe as it was then.
LEMMA SoughtStands ==
    ASSUME RequestInv, NamingInv, Sought
    PROVE  /\ reader.want.recipe \in Ids /\ reader.steady
           /\ \E b \in builds[reader.want.recipe] :
                 /\ Standing(reader.want.recipe, b)
                 /\ reader.want \in NamedByImage(ImageOf(reader.want.recipe, b))
                      \cup NamedByReferrers(ImageOf(reader.want.recipe, b),
                                           metadata_documents(reader.want.recipe, b))
BY DEF NamingInv, ToldInv, WantInv, Sought, Vouched

\* Going on to the next recipe loses nothing when what is wanted is not of this one.
LEMMA NextKeepsNames ==
    ASSUME RequestInv, NamingInv, reader.pc \in Searching, UNCHANGED evidence, told' = told,
           NextCandidate, Sought => reader.at # reader.want.recipe
    PROVE  NamingInv'
<1>1. ReaderOK /\ WantInv /\ ~At("idle")
  BY DEF RequestInv, NamingInv, At, Searching
<1>2. /\ reader'.request = reader.request /\ reader'.want = reader.want
      /\ reader'.steady = reader.steady
      /\ \/ reader'.pc = "refused" /\ reader'.at = reader.at
         \/ /\ reader'.pc = First(reader.request) /\ reader'.at \in Ids
            /\ reader'.at = reader.at + 1 /\ reader.request # "tag" /\ reader'.image = None
  BY <1>1, NextMoves
<1>3. reader'.pc \in {"refused", "select", "gate"}
  BY <1>2 DEF First
<1>4. ToldInv'
  BY ReadKeepsStanding DEF NamingInv, ToldInv
<1>5. WantInv'
  BY <1>1, <1>2, <1>3 DEF WantInv, At
<1>6. SteadyInv'
  BY <1>3 DEF SteadyInv, At, Referrers
<1>7. SearchInv'
  <2> SUFFICES ASSUME Sought PROVE SearchInv'
    BY <1>1, <1>2 DEF SearchInv, Sought, At
  <2>1. /\ reader.want.recipe \in Ids /\ reader.at \in Ids
        /\ reader.at <= reader.want.recipe /\ reader.at # reader.want.recipe
    BY <1>1, SoughtStands DEF ReaderOK, NamingInv, SearchInv
  <2>2. /\ Ids = 1..Len(Recipes) /\ Len(Recipes) \in Nat
    BY PublicationAssumption DEF Ids
  <2>3. reader.at + 1 <= reader.want.recipe /\ reader.at # Len(Recipes)
    BY <2>1, <2>2
  <2>4. reader.request \in {"blob", "manifest"}
    BY DEF Sought
  <2>5. /\ reader'.pc = First(reader.request) /\ reader'.at = reader.at + 1 /\ reader'.image = None
    <3>1. reader' = [reader EXCEPT !.at = @ + 1, !.pc = First(reader.request),
                                   !.record = None, !.image = None, !.since = 0]
      BY <2>3, <2>4 DEF NextCandidate
    <3> QED
      BY <1>1, <3>1 DEF ReaderOK, Shape
  <2> QED
    BY <1>1, <1>2, <2>3, <2>4, <2>5 DEF SearchInv, Sought, At, First, WantInv
<1> QED
  BY <1>4, <1>5, <1>6, <1>7 DEF NamingInv

LEMMA SelectKeepsNames ==
    ASSUME RequestInv, NamingInv, SelectBlob
    PROVE  NamingInv'
<1>1. /\ UNCHANGED evidence /\ told' = told /\ Shape(reader) /\ reader.at \in Ids
      /\ reader.pc = "select" /\ reader.request = "blob" /\ StoreInv
  BY DEF SelectBlob, RequestInv, ReaderOK, At
<1>2. PICK r \in Ids : r = reader.at
  BY <1>1
<1>3. PICK latest, layer : latest = latest_build_evidence(r) /\ layer = latest.artifact.digest
  OBVIOUS
<1>4. PICK image :
         /\ reader' = [reader EXCEPT !.pc = "gate", !.image = image]
         /\ image = IF HasLayer(latest) /\ IsBlobOf(reader.want, Image(r, layer))
                    THEN Image(r, layer) ELSE None
  BY <1>2, <1>3 DEF SelectBlob, Candidate
<1>5. /\ reader'.pc = "gate" /\ reader'.at = r /\ reader'.request = "blob"
      /\ reader'.want = reader.want /\ reader'.image = image /\ reader'.steady = reader.steady
  BY <1>1, <1>2, <1>4 DEF Shape
<1>6. ToldInv'
  BY <1>1, ReadKeepsStanding DEF NamingInv, ToldInv
<1>7. WantInv'
  BY <1>1, <1>2, <1>5 DEF NamingInv, WantInv, At
<1>8. SteadyInv'
  BY <1>5 DEF SteadyInv, At, Referrers
<1>9. SearchInv'
  <2> SUFFICES ASSUME Sought
               PROVE  /\ r <= reader.want.recipe
                      /\ image # None => IsBlobOf(reader.want, image) /\ image = Image(r, image.layer)
                      /\ image = None =>
                            (r = reader.want.recipe => reader.want.type \notin {"config", "layer"})
    BY <1>1, <1>5 DEF SearchInv, Sought, At
  <2>1. r <= reader.want.recipe
    BY <1>1, <1>2 DEF NamingInv, SearchInv, Searching
  <2>2. Image(r, layer).layer = layer
    BY DEF Image
  <2>3. image # None => IsBlobOf(reader.want, image) /\ image = Image(r, image.layer)
    BY <1>4, <2>2
  <2>4. ASSUME r = reader.want.recipe, reader.want.type \in {"config", "layer"}
        PROVE  image # None
    <3>1. PICK b \in builds[r] :
             /\ Standing(r, b)
             /\ reader.want \in NamedByImage(ImageOf(r, b))
                      \cup NamedByReferrers(ImageOf(r, b), metadata_documents(r, b))
      BY <2>4, SoughtStands
    <3>2. b = latest /\ HasLayer(latest) /\ ImageOf(r, b) = Image(r, layer)
      BY <1>3, <3>1 DEF Standing, ImageOf
    <3>3. reader.want \in NamedByImage(Image(r, layer))
      BY <2>4, <3>1, <3>2, NamedTypes
    <3>4. IsBlobOf(reader.want, Image(r, layer))
      BY <2>4, <3>3 DEF NamedByImage, IsBlobOf, Image, Config, Layer
    <3>5. layer \in Layers
      <4>1. HasLayer(latest) /\ latest \in builds[r]
        BY <3>1, <3>2
      <4> QED
        BY <1>1, <1>3, <4>1, PublicationAssumption DEF HasLayer, StoreInv, BuildInv, IsBuild
    <3> QED
      BY <1>4, <3>2, <3>4, <3>5, RecordAssumption
  <2> QED
    BY <2>1, <2>3, <2>4
<1> QED
  BY <1>6, <1>7, <1>8, <1>9 DEF NamingInv

LEMMA ReadBuildsKeepsNames ==
    ASSUME RequestInv, NamingInv, ReadBuilds
    PROVE  NamingInv'
<1>1. /\ UNCHANGED evidence /\ told' = told /\ Shape(reader) /\ reader.at \in Ids
      /\ reader.pc = "gate"
  BY DEF ReadBuilds, RequestInv, ReaderOK, At
<1>2. PICK r \in Ids : r = reader.at
  BY <1>1
<1>3. PICK latest : latest = latest_build_evidence(r)
  OBVIOUS
<1>4. reader' = [reader EXCEPT !.pc = "judge", !.record = latest]
  BY <1>2, <1>3 DEF ReadBuilds, Candidate
<1>5. /\ reader'.pc = "judge" /\ reader'.at = r /\ reader'.request = reader.request
      /\ reader'.want = reader.want /\ reader'.image = reader.image
      /\ reader'.steady = reader.steady /\ reader'.record = latest
  BY <1>1, <1>2, <1>4 DEF Shape
<1>6. latest_build_evidence(r)' = latest
  BY <1>1, <1>3, ReadKeepsStanding
<1>7. ToldInv'
  BY <1>1, ReadKeepsStanding DEF NamingInv, ToldInv
<1>8. WantInv'
  BY <1>1, <1>2, <1>5 DEF NamingInv, WantInv, At
<1>9. SteadyInv'
  BY <1>5, <1>6 DEF SteadyInv, At, Referrers
<1>10. SearchInv'
  BY <1>1, <1>2, <1>5 DEF NamingInv, SearchInv, Sought, At, Searching
<1> QED
  BY <1>7, <1>8, <1>9, <1>10 DEF NamingInv

LEMMA JudgeKeepsNames ==
    ASSUME RequestInv, NamingInv, Judge
    PROVE  NamingInv'
<1>1. /\ UNCHANGED evidence /\ told' = told /\ Shape(reader) /\ reader.at \in Ids
      /\ reader.pc = "judge" /\ StoreInv
      /\ reader.image # None => reader.request = "blob"
  BY DEF Judge, RequestInv, ReaderOK, At
<1>2. PICK r \in Ids : r = reader.at
  BY <1>1
<1>3. PICK record : record = reader.record
  OBVIOUS
<1>4. ToldInv'
  BY <1>1, ReadKeepsStanding DEF NamingInv, ToldInv
<1>5. reader.steady /\ r = reader.want.recipe => record = latest_build_evidence(r)
  BY <1>1, <1>2, <1>3 DEF NamingInv, SteadyInv, At
\* The gate has allowed what is wanted before, and still does.
<1>6. Sought /\ r = reader.want.recipe => GateAllows(r, record)
  BY <1>5, SoughtStands DEF Standing
<1>7. CASE GateAllows(r, record) /\ reader.image = None /\ reader' = [reader EXCEPT !.pc = "layer"]
  <2>1. /\ reader'.pc = "layer" /\ reader'.at = r /\ reader'.request = reader.request
        /\ reader'.want = reader.want /\ reader'.image = None
        /\ reader'.steady = reader.steady /\ reader'.record = record
    BY <1>1, <1>2, <1>3, <1>7 DEF Shape
  <2>2. WantInv'
    BY <1>1, <1>2, <2>1 DEF NamingInv, WantInv, At
  <2>3. SteadyInv'
    <3>1. latest_build_evidence(r)' = latest_build_evidence(r) /\ (HasLayer(record)' <=> HasLayer(record))
          /\ (Standing(r, record)' <=> Standing(r, record))
      BY <1>1, ReadKeepsStanding
    <3>2. record = latest_build_evidence(r) /\ HasLayer(record) => Standing(r, record)
      BY <1>1, <1>7, LayerIsNewest DEF Standing
    <3> QED
      BY <1>5, <2>1, <3>1, <3>2 DEF SteadyInv, At, Referrers
  <2>4. SearchInv'
    BY <1>1, <1>2, <1>7, <2>1 DEF NamingInv, SearchInv, Sought, At, Searching
  <2> QED
    BY <1>4, <2>2, <2>3, <2>4 DEF NamingInv
<1>8. CASE reader.image # None /\ Serve
  <2>1. /\ reader'.pc = "served" /\ reader'.at = r /\ reader'.request = "blob"
        /\ reader'.want = reader.want /\ reader'.steady = reader.steady
    BY <1>1, <1>2, <1>8 DEF Serve, Shape
  <2>2. WantInv'
    BY <1>1, <1>2, <1>8, <2>1 DEF NamingInv, WantInv, At
  <2>3. SteadyInv' /\ SearchInv'
    BY <2>1 DEF SteadyInv, SearchInv, Searching, At, Referrers
  <2> QED
    BY <1>4, <2>2, <2>3 DEF NamingInv
<1>9. CASE ~GateAllows(r, record) /\ NextCandidate
  BY <1>1, <1>2, <1>6, <1>9, NextKeepsNames DEF Searching
<1>10. CASE ~GateAllows(r, record) /\ reader.image # None /\ Refuse
  <2>1. /\ reader'.pc = "refused" /\ reader'.at = r /\ reader'.request = "blob"
        /\ reader'.want = reader.want /\ reader'.image = reader.image
        /\ reader'.steady = reader.steady
    BY <1>1, <1>2, <1>10 DEF Refuse, Shape
  <2>2. WantInv'
    BY <1>1, <1>2, <1>10, <2>1 DEF NamingInv, WantInv, At
  <2>3. SteadyInv'
    BY <2>1 DEF SteadyInv, At, Referrers
  <2>4. ASSUME Sought PROVE DeniedByNamesake(reader.want)'
    <3>1. /\ r <= reader.want.recipe /\ r # reader.want.recipe
          /\ IsBlobOf(reader.want, reader.image) /\ reader.image = Image(r, reader.image.layer)
          /\ reader.want.recipe \in Ids
      BY <1>1, <1>2, <1>6, <1>10, <2>4, SoughtStands DEF NamingInv, SearchInv, Searching
    <3>2. PICK layer : layer = reader.image.layer
      OBVIOUS
    <3>3. reader.want # Config(r, layer)
      BY <3>1 DEF Config
    <3>4. reader.image.recipe = r
      BY <3>1 DEF Image
    <3>5. reader.want.type = "layer" /\ reader.want.layer = layer
      BY <3>1, <3>2, <3>3, <3>4 DEF IsBlobOf
    <3>6. r < reader.want.recipe
      BY <3>1, PublicationAssumption DEF Ids
    <3> QED
      BY <2>1, <3>1, <3>2, <3>5, <3>6 DEF DeniedByNamesake
  <2>5. SearchInv'
    BY <1>1, <1>10, <2>1, <2>4 DEF SearchInv, Sought, Searching, At
  <2> QED
    BY <1>4, <2>2, <2>3, <2>5 DEF NamingInv
<1> QED
  BY <1>2, <1>3, <1>7, <1>8, <1>9, <1>10 DEF Judge, Candidate

LEMMA ChooseKeepsNames ==
    ASSUME RequestInv, NamingInv, ChooseLayer
    PROVE  NamingInv'
<1>1. /\ UNCHANGED evidence /\ told' = told /\ Shape(reader) /\ reader.at \in Ids
      /\ reader.pc = "layer" /\ StoreInv
  BY DEF ChooseLayer, RequestInv, ReaderOK, At
<1>2. PICK r \in Ids : r = reader.at
  BY <1>1
<1>3. PICK latest : latest = latest_build_evidence(r)
  OBVIOUS
<1>4. PICK image : image = Image(r, latest.artifact.digest)
  OBVIOUS
<1>5. ToldInv'
  BY <1>1, ReadKeepsStanding DEF NamingInv, ToldInv
<1>6. Sought /\ r = reader.want.recipe => HasLayer(latest) /\ reader.request # "referrers"
  BY <1>3, SoughtStands DEF Standing, Sought
<1>7. CASE /\ ~HasLayer(latest) \/ (reader.request = "referrers" /\ image # reader.want)
           /\ NextCandidate
  BY <1>1, <1>2, <1>6, <1>7, NextKeepsNames DEF Searching
<1>8. CASE /\ HasLayer(latest) /\ (reader.request = "referrers" => image = reader.want)
           /\ reader' = [reader EXCEPT
                           !.pc = IF reader.request = "tag" THEN "served" ELSE "documents",
                           !.image = image, !.since = latest.created_at]
  <2>1. /\ reader'.pc = IF reader.request = "tag" THEN "served" ELSE "documents"
        /\ reader'.at = r /\ reader'.request = reader.request /\ reader'.want = reader.want
        /\ reader'.image = image /\ reader'.steady = reader.steady
    BY <1>1, <1>2, <1>8 DEF Shape
  <2>2. reader.request = "referrers" => r = reader.want.recipe
    BY <1>4, <1>8 DEF Image
  <2>3. WantInv'
    BY <1>1, <1>2, <2>1, <2>2 DEF NamingInv, WantInv, At
  <2>4. SteadyInv'
    <3>1. reader.steady /\ r = reader.want.recipe => Standing(r, latest) /\ latest \in builds[r]
      BY <1>1, <1>2, <1>3, <1>8 DEF NamingInv, SteadyInv, At, Standing
    <3>2. (Standing(r, latest)' <=> Standing(r, latest)) /\ builds'[r] = builds[r]
      BY <1>1, ReadKeepsStanding
    <3>3. image = ImageOf(r, latest)
      BY <1>4 DEF ImageOf
    <3>4. reader'.pc = "documents" \/ (reader'.pc = "served" /\ reader'.request = "tag")
      BY <2>1
    <3> QED
      BY <2>1, <3>1, <3>2, <3>3, <3>4 DEF SteadyInv, At, Referrers
  <2>5. SearchInv'
    BY <1>1, <1>2, <2>1 DEF NamingInv, SearchInv, Sought, At, Searching
  <2> QED
    BY <1>5, <2>3, <2>4, <2>5 DEF NamingInv
<1> QED
  BY <1>2, <1>3, <1>4, <1>7, <1>8 DEF ChooseLayer, Candidate

LEMMA ListKeepsNames ==
    ASSUME RequestInv, NamingInv, ListBuilds
    PROVE  NamingInv'
<1>1. /\ UNCHANGED evidence /\ told' = told /\ Shape(reader) /\ reader.at \in Ids
      /\ reader.pc = "documents"
  BY DEF ListBuilds, RequestInv, ReaderOK, At
<1>2. PICK r \in Ids : r = reader.at
  BY <1>1
<1>3. PICK latest : latest = latest_build_evidence(r)
  OBVIOUS
<1>4. reader' = [reader EXCEPT !.pc = "publish", !.record = latest]
  BY <1>2, <1>3 DEF ListBuilds, Candidate
<1>5. /\ reader'.pc = "publish" /\ reader'.at = r /\ reader'.request = reader.request
      /\ reader'.want = reader.want /\ reader'.image = reader.image
      /\ reader'.steady = reader.steady /\ reader'.record = latest
  BY <1>1, <1>2, <1>4 DEF Shape
<1>6. ToldInv'
  BY <1>1, ReadKeepsStanding DEF NamingInv, ToldInv
<1>7. WantInv'
  BY <1>1, <1>2, <1>5 DEF NamingInv, WantInv, At
<1>8. SteadyInv'
  <2>1. reader.steady /\ r = reader.want.recipe =>
           Standing(r, latest) /\ reader.image = ImageOf(r, latest)
    BY <1>1, <1>2, <1>3 DEF NamingInv, SteadyInv, At, Standing
  <2>2. Standing(r, latest)' <=> Standing(r, latest)
    BY <1>1, ReadKeepsStanding
  <2> QED
    BY <1>5, <2>1, <2>2 DEF SteadyInv, At, Referrers
<1>9. SearchInv'
  BY <1>1, <1>2, <1>5 DEF NamingInv, SearchInv, Sought, At, Searching
<1> QED
  BY <1>6, <1>7, <1>8, <1>9 DEF NamingInv

LEMMA PublishKeepsNames ==
    ASSUME RequestInv, NamingInv, Publish
    PROVE  NamingInv'
<1>1. /\ UNCHANGED evidence /\ told' = told /\ Shape(reader) /\ reader.at \in Ids
      /\ reader.pc = "publish" /\ StoreInv
  BY DEF Publish, RequestInv, ReaderOK, At
<1>2. PICK r \in Ids : r = reader.at
  BY <1>1
<1>3. PICK record : record = reader.record
  OBVIOUS
<1>4. PICK documents : documents = metadata_documents(r, record)
  OBVIOUS
<1>5. ToldInv'
  BY <1>1, ReadKeepsStanding DEF NamingInv, ToldInv
<1>6. reader.steady /\ r = reader.want.recipe =>
         Standing(r, record) /\ reader.image = ImageOf(r, record)
  BY <1>1, <1>2, <1>3 DEF NamingInv, SteadyInv, At
\* What is wanted of this recipe is among its documents.
<1>7. ASSUME Sought, r = reader.want.recipe PROVE ~EvidenceFails(r, record) /\ Wanted(documents)
  <2>1. reader.steady /\ Standing(r, record) /\ reader.image = ImageOf(r, record)
    BY <1>6, <1>7, SoughtStands
  <2>2. ~EvidenceFails(r, record)
    BY <2>1 DEF Standing, GateAllows
  <2>3. PICK b \in builds[r] :
           /\ Standing(r, b)
           /\ reader.want \in NamedByImage(ImageOf(r, b))
                    \cup NamedByReferrers(ImageOf(r, b), metadata_documents(r, b))
    BY <1>7, SoughtStands
  <2>4. b = record
    BY <2>1, <2>3 DEF Standing
  <2>5. /\ reader.want.type \notin {"image", "config", "layer"}
        /\ reader.request = "blob" => reader.want.type # "artifact"
        /\ reader.request = "manifest" => reader.want.type = "artifact"
        /\ reader.request \in {"blob", "manifest"}
    BY <1>1, <1>2, <1>7 DEF NamingInv, SearchInv, Sought, WantInv, At
  <2>6. reader.want \in NamedByReferrers(ImageOf(r, record), documents)
    BY <1>4, <2>3, <2>4, <2>5, NamedTypes
  <2>7. CASE reader.request = "blob"
    <3>1. reader.want \in documents
      BY <1>4, <2>5, <2>6, <2>7, NamedTypes
    <3> QED
      BY <2>2, <2>7, <3>1 DEF Wanted
  <2>8. CASE reader.request = "manifest"
    <3>1. reader.want \notin documents
      BY <1>4, <2>5, <2>8, NamedTypes
    <3>2. \E d \in documents : reader.want = Artifact(reader.image, d)
      BY <2>1, <2>6, <3>1 DEF NamedByReferrers
    <3> QED
      BY <2>2, <2>8, <3>2 DEF Wanted
  <2> QED
    BY <2>5, <2>7, <2>8
<1>8. CASE NextCandidate /\ (EvidenceFails(r, record) \/ ~Wanted(documents))
  BY <1>1, <1>2, <1>7, <1>8, NextKeepsNames DEF Searching
<1>9. CASE reader.request = "referrers" /\ Refuse
  <2>1. /\ reader'.pc = "refused" /\ reader'.at = r /\ reader'.request = "referrers"
        /\ reader'.want = reader.want /\ reader'.steady = reader.steady
    BY <1>1, <1>2, <1>9 DEF Refuse, Shape
  <2>2. WantInv'
    BY <1>1, <1>2, <1>9, <2>1 DEF NamingInv, WantInv, At
  <2>3. SteadyInv' /\ SearchInv'
    BY <2>1 DEF SteadyInv, SearchInv, Sought, At, Referrers
  <2> QED
    BY <1>5, <2>2, <2>3 DEF NamingInv
<1>10. CASE reader' = [reader EXCEPT !.pc = "served", !.documents = documents]
  <2>1. /\ reader'.pc = "served" /\ reader'.at = r /\ reader'.request = reader.request
        /\ reader'.want = reader.want /\ reader'.image = reader.image
        /\ reader'.steady = reader.steady /\ reader'.record = record
        /\ reader'.documents = documents
    BY <1>1, <1>2, <1>3, <1>10 DEF Shape
  <2>2. WantInv'
    BY <1>1, <1>2, <2>1 DEF NamingInv, WantInv, At
  <2>3. SteadyInv'
    <3>1. /\ Standing(r, record)' <=> Standing(r, record)
          /\ builds'[r] = builds[r]
          /\ documents = metadata_documents(r, record)'
      BY <1>1, <1>4, ReadKeepsStanding
    <3>2. Standing(r, record) => record \in builds[r]
      BY DEF Standing
    <3> QED
      BY <1>6, <2>1, <3>1, <3>2 DEF SteadyInv, At, Referrers
  <2>4. SearchInv'
    BY <2>1 DEF SearchInv, Searching, At
  <2> QED
    BY <1>5, <2>2, <2>3, <2>4 DEF NamingInv
<1> QED
  BY <1>2, <1>3, <1>4, <1>8, <1>9, <1>10 DEF Publish, Candidate

\* What an answer names stands, if the evidence did not change while it was made.
LEMMA FinishKeepsNames ==
    ASSUME RequestInv, NamingInv, Finish
    PROVE  NamingInv'
<1>1. /\ UNCHANGED evidence /\ reader' = Idle /\ ~At("idle") /\ reader.at \in Ids
      /\ told' = IF At("served") /\ reader.steady THEN told \cup Named ELSE told
  BY DEF Finish, RequestInv, ReaderOK
<1>2. Idle.pc = "idle"
  BY DEF Idle
<1>3. WantInv' /\ SteadyInv' /\ SearchInv'
  BY <1>1, <1>2 DEF WantInv, SteadyInv, SearchInv, Sought, At
<1>4. PICK r \in Ids : r = reader.at
  BY <1>1
<1>5. ASSUME At("served"), reader.steady, NEW d \in Named PROVE Vouched(d)
  <2>1. reader.request \in {"tag", "referrers"}
    BY <1>5 DEF Named
  <2>2. r = reader.want.recipe
    BY <1>4, <1>5, <2>1 DEF NamingInv, WantInv, At
  <2>3. CASE reader.request = "tag"
    <3>1. PICK b \in builds[r] : Standing(r, b) /\ reader.image = ImageOf(r, b)
      BY <1>1, <1>4, <1>5, <2>2, <2>3 DEF NamingInv, SteadyInv, At
    <3>2. d \in NamedByImage(ImageOf(r, b))
      BY <1>5, <2>3, <3>1 DEF Named
    <3>3. d.recipe = r
      BY <3>2, NamedTypes
    <3> QED
      BY <3>1, <3>2, <3>3 DEF Vouched
  <2>4. CASE reader.request = "referrers"
    <3>1. PICK b : b = reader.record
      OBVIOUS
    <3>2. /\ Standing(r, b) /\ reader.image = ImageOf(r, b)
          /\ reader.documents = metadata_documents(r, b)
      BY <1>1, <1>4, <1>5, <2>2, <2>4, <3>1 DEF NamingInv, SteadyInv, At, Referrers
    <3>3. d \in NamedByReferrers(ImageOf(r, b), metadata_documents(r, b))
      BY <1>5, <2>4, <3>2 DEF Named
    <3>4. d.recipe = r /\ b \in builds[r]
      BY <3>2, <3>3, NamedTypes DEF Standing
    <3> QED
      BY <3>2, <3>3, <3>4 DEF Vouched
  <2> QED
    BY <2>1, <2>3, <2>4
<1>6. \A d \in told' : Vouched(d)
  BY <1>1, <1>5 DEF NamingInv, ToldInv
<1>7. ToldInv'
  BY <1>1, <1>6, ReadKeepsStanding DEF ToldInv
<1> QED
  BY <1>3, <1>7 DEF NamingInv

LEMMA NamingInvariant == Spec => []NamingInv
<1>1. Init => NamingInv
  <2> SUFFICES ASSUME reader = Idle, told = {} PROVE NamingInv
    BY DEF Init
  <2>1. Idle.pc = "idle"
    BY DEF Idle
  <2> QED
    BY <2>1 DEF NamingInv, ToldInv, WantInv, SteadyInv, SearchInv, Sought, At
<1>2. RequestInv /\ RequestInv' /\ NamingInv /\ [Next]_vars => NamingInv'
  <2> SUFFICES ASSUME RequestInv, RequestInv', NamingInv, [Next]_vars PROVE NamingInv'
    OBVIOUS
  <2>1. StoreInv /\ StoreInv'
    BY DEF RequestInv
  <2>2. CASE Ask
    BY <2>2, AskKeepsNames
  <2>3. CASE Answer
    BY <2>3, SelectKeepsNames, ReadBuildsKeepsNames, JudgeKeepsNames, ChooseKeepsNames,
       ListKeepsNames, PublishKeepsNames, FinishKeepsNames DEF Answer
  <2>4. CASE Write
    <3>1. ASSUME NEW path \in unsynced, PowerLoss(path) PROVE NamingInv'
      <4>1. reader' = Idle /\ told' = {}
        BY <3>1 DEF PowerLoss
      <4>2. Idle.pc = "idle"
        BY DEF Idle
      <4> QED
        BY <4>1, <4>2 DEF NamingInv, ToldInv, WantInv, SteadyInv, SearchInv, Sought, At
    <3>2. CASE \/ Tick
               \/ \E r \in Ids : \/ FailBuild(r) \/ PostScan(r)
                                 \/ \E l \in Layers, a \in Assessments : Import(r, l, a)
                                 \/ \E s \in Statements : AddVex(r, s)
      BY <2>1, <3>2, WritesKeepNames
    <3> QED
      BY <2>4, <3>1, <3>2 DEF Write
  <2>5. CASE UNCHANGED vars
    <3>1. UNCHANGED evidence /\ reader' = reader /\ told' = told
      BY <2>5 DEF vars, evidence
    <3>2. ToldInv'
      BY <3>1, ReadKeepsStanding DEF NamingInv, ToldInv
    <3>3. WantInv' /\ SearchInv'
      BY <3>1 DEF NamingInv, WantInv, SearchInv, Sought, At, DeniedByNamesake
    <3>4. SteadyInv'
      <4> SUFFICES ASSUME ~At("idle"), reader.steady, reader.at = reader.want.recipe
                   PROVE  SteadyInv'
        BY <3>1 DEF SteadyInv, At
      <4>1. PICK r \in Ids : r = reader.at
        BY DEF RequestInv, ReaderOK
      <4>2. PICK record : record = reader.record
        OBVIOUS
      <4>3. /\ builds'[r] = builds[r]
            /\ latest_build_evidence(r)' = latest_build_evidence(r)
            /\ HasLayer(record)' <=> HasLayer(record)
            /\ \A b : Standing(r, b)' <=> Standing(r, b)
            /\ metadata_documents(r, record)' = metadata_documents(r, record)
        BY <3>1, ReadKeepsStanding
      <4>4. /\ reader.pc \in {"judge", "layer"} => record = latest_build_evidence(r)
            /\ At("layer") /\ HasLayer(record) => Standing(r, record)
            /\ At("documents") \/ (At("served") /\ reader.request = "tag") =>
                  \E b \in builds[r] : Standing(r, b) /\ reader.image = ImageOf(r, b)
            /\ At("publish") \/ Referrers =>
                  Standing(r, record) /\ reader.image = ImageOf(r, record)
            /\ Referrers => reader.documents = metadata_documents(r, record)
        BY <4>1, <4>2 DEF NamingInv, SteadyInv
      <4>5. reader'.at = r /\ reader'.record = record
        BY <3>1, <4>1, <4>2
      <4> QED
        BY <3>1, <4>3, <4>4, <4>5 DEF SteadyInv, At, Referrers
    <3> QED
      BY <3>2, <3>3, <3>4 DEF NamingInv
  <2> QED
    BY <2>2, <2>3, <2>4, <2>5 DEF Next
<1> QED
  BY <1>1, <1>2, RequestInvariant, PTL DEF Spec

\* metadata_gate and metadata_documents work from readings of their own, and decide on their
\* own which VEX statement prevails: whenever the evidence did not change while an index of
\* referrers was made, its documents are about its subject and say that nothing is open.
THEOREM DocumentsAgree == Spec => []SetAgreesWithGate
<1>1. RequestInv /\ NamingInv => SetAgreesWithGate
  <2> SUFFICES ASSUME RequestInv, NamingInv, Referrers, reader.steady
               PROVE  /\ \E d \in reader.documents :
                             /\ d.type = "slsa"
                             /\ d.artifact = reader.image.layer
                             /\ d.scan = reader.record.artifact_scan_id
                             /\ d.findings = {}
                             /\ \A i \in DOMAIN d.byproducts : d.byproducts[i] \in reader.documents
                      /\ \A d \in reader.documents : d.type = "openvex" =>
                             \A s \in d.statements : s.status \notin {"affected", "under_investigation"}
    BY DEF SetAgreesWithGate
  <2>1. StoreInv /\ reader.at \in Ids /\ reader.at = reader.want.recipe
    BY DEF RequestInv, ReaderOK, NamingInv, WantInv, Referrers, At
  <2>2. PICK r \in Ids : r = reader.at
    BY <2>1
  <2>3. PICK b : b = reader.record
    OBVIOUS
  <2>4. /\ Standing(r, b) /\ reader.image = ImageOf(r, b)
        /\ reader.documents = metadata_documents(r, b)
    BY <2>1, <2>2, <2>3 DEF NamingInv, SteadyInv, Referrers, At
  <2>5. reader.image.layer = b.artifact.digest
    BY <2>4 DEF ImageOf, Image
  <2>6. PICK documents : documents = metadata_documents(r, b)
    OBVIOUS
  <2>7. /\ \E d \in documents :
              /\ d.type = "slsa" /\ d.artifact = b.artifact.digest
              /\ d.scan = b.artifact_scan_id /\ d.findings = {}
              /\ \A i \in DOMAIN d.byproducts : d.byproducts[i] \in documents
        /\ \A d \in documents : d.type = "openvex" =>
              \A s \in d.statements : s.status \notin Open
    BY <2>1, <2>4, <2>6, StandingAgrees
  <2> QED
    BY <2>3, <2>4, <2>5, <2>6, <2>7 DEF Open
<1> QED
  BY <1>1, RequestInvariant, NamingInvariant, PTL

\* GET .../sbom works from the latest scan, an index of referrers from the inspection that the
\* record is bound to (app.rs, get_sbom and load_decision_scan): they give one document until
\* a later scan is saved or one cannot be read.
THEOREM EndpointGivesWhatIsNamed == Spec => []EndpointAgrees
<1>1. RequestInv /\ NamingInv => EndpointAgrees
  <2> SUFFICES ASSUME RequestInv, NamingInv, NEW d \in told, d.type = "sbom"
               PROVE  \/ get_sbom(d.recipe) = d
                      \/ \E s \in scans[d.recipe] :
                            s.created_at > d.about \/ ~Readable(ScanOf(d.recipe, s))
    BY DEF EndpointAgrees
  <2>1. StoreInv
    BY DEF RequestInv
  <2>2. PICK r \in Ids : r = d.recipe
    BY DEF NamingInv, ToldInv, Vouched
  <2>3. PICK b \in builds[r] :
           /\ Standing(r, b)
           /\ d \in NamedByImage(ImageOf(r, b))
                    \cup NamedByReferrers(ImageOf(r, b), metadata_documents(r, b))
    BY <2>2 DEF NamingInv, ToldInv, Vouched
  <2>4. d \in metadata_documents(r, b)
    BY <2>3, NamedTypes
  <2> QED
    BY <2>1, <2>2, <2>3, <2>4, StandingSbom
<1> QED
  BY <1>1, RequestInvariant, NamingInvariant, PTL

\* metadata_artifact_manifest_by_digest and oci_blob_response go through the recipes of the
\* name one after the other: however many there are, and whatever happens to the evidence of
\* the others, a request by digest finds what an answer has named.
THEOREM NamedIsFound == Spec => []NamedIsServed
<1>1. NamingInv => NamedIsServed
  <2> SUFFICES ASSUME NamingInv, At("refused"), reader.want \in told, reader.want.type # "image"
               PROVE  DeniedByNamesake(reader.want)
    BY DEF NamedIsServed
  <2>1. Sought
    BY DEF NamingInv, WantInv, Sought, At
  <2> QED
    BY <2>1 DEF NamingInv, SearchInv
<1> QED
  BY <1>1, NamingInvariant, PTL
=============================================================================
