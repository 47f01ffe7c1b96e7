----------------------- MODULE MetadataDocuments_proofs -----------------------
(***************************************************************************)
(* The published VEX document and the gate, as operators: whatever the     *)
(* statements and the assessments, a document made from what the gate has  *)
(* allowed names no open vulnerability.                                    *)
(***************************************************************************)
EXTENDS MetadataDocuments, WellFoundedInduction, TLAPS

Open == {"affected", "under_investigation"}

\* What is true of every statement of a recipe that add_vex has let through, whatever became
\* of the layer and the time it was checked against.
Posted(recipe, s) ==
    /\ s.recipe_digest = recipe.digest
    /\ s.status \in Open \cup {"not_affected"}
    /\ s.status = "not_affected" =>
          /\ recipe.allow_external_vex_overrides
          /\ s.component # None
          /\ s.evidenced

\* Of the statements with one key some statement is the newest.
LEMMA NewestExists ==
    ASSUME NEW vex, Len(vex) \in Nat, NEW i \in 1..Len(vex)
    PROVE  \E k \in 1..Len(vex) :
              /\ k >= i
              /\ k = i \/ SameVexKey(vex[i], vex[k])
              /\ \A j \in (k + 1)..Len(vex) : ~SameVexKey(vex[k], vex[j])
<1> DEFINE n == Len(vex)
           K == {k \in i..n : k = i \/ SameVexKey(vex[i], vex[k])}
           Ranks == {n - k : k \in K}
<1>1. n \in Nat /\ i \in K
  OBVIOUS
<1>2. Ranks \subseteq Nat /\ Ranks # {}
  BY <1>1
<1>3. PICK r \in Ranks : \A q \in Ranks : ~(<<q, r>> \in OpToRel(<, Nat))
  <2> HIDE DEF Ranks
  <2> QED
    BY <1>2, NatLessThanWellFounded, WFMin
<1>4. PICK k \in K : r = n - k
  BY <1>3
<1>5. ASSUME NEW j \in (k + 1)..n, SameVexKey(vex[k], vex[j]) PROVE FALSE
  <2>1. j \in K
    BY <1>1, <1>4, <1>5 DEF SameVexKey
  <2>2. n - j \in Ranks /\ n - j \in Nat /\ n - k \in Nat /\ n - j < n - k
    BY <1>1, <1>4, <2>1
  <2> QED
    BY <1>3, <1>4, <2>2 DEF OpToRel
<1> QED
  BY <1>1, <1>4, <1>5

\* The gate and the publisher work out on their own which statement prevails; they agree.
LEMMA AllowedIsClosed ==
    ASSUME NEW recipe, NEW build, NEW scan, NEW vex, NEW now,
           Len(vex) \in Nat, \A i \in 1..Len(vex) : Posted(recipe, vex[i]),
           scan # None => scan.layers = {build.artifact.digest},
           ~Denies(recipe, build, scan, vex, now),
           NEW s \in combined_vex_statements(recipe, scan, vex, now)
    PROVE  s.status \notin Open
<1> SUFFICES ASSUME s.status \in Open PROVE FALSE
  OBVIOUS
<1> DEFINE product == artifact_product(scan)
           active == ActiveAt(recipe, vex, product, now)
<1>1. \A i \in 1..Len(vex) : vex[i].recipe_digest = recipe.digest
  BY DEF Posted
<1>2. ASSUME NEW i \in 1..Len(vex), vex[i].status \in Open,
             \A j \in (i + 1)..Len(vex) : ~SameVexKey(vex[i], vex[j])
      PROVE  FALSE
  <2>1. vex[i] \in effective_vex_statements(recipe, vex)
    BY <1>1, <1>2 DEF effective_vex_statements
  <2> QED
    BY <1>2, <2>1 DEF Denies, Open
<1>3. ASSUME NEW i \in active, s = Published(vex[i], vex[i].product) PROVE FALSE
  <2>1. s.status = vex[i].status
    BY <1>3 DEF Published
  <2>2. /\ i \in 1..Len(vex)
        /\ \A j \in (i + 1)..Len(vex) : ~SameVexKey(vex[i], vex[j])
    BY <1>1, <1>3 DEF ActiveAt
  <2> QED
    BY <1>2, <2>1, <2>2
<1>4. ASSUME s \in Autonomous(recipe, scan), \A i \in active : ~Overrides(vex[i], s)
      PROVE  FALSE
  <2> DEFINE layer == build.artifact.digest
  <2>1. scan # None /\ scan.layers = {layer} /\ product = layer
    BY <1>4 DEF Autonomous, artifact_product
  <2>2. PICK a \in scan.assessments : s = Published(a, layer)
    BY <1>4, <2>1 DEF Autonomous
  <2>3. /\ s.vulnerability = a.vulnerability /\ s.component = a.component
        /\ s.product = layer /\ s.status = a.status
    BY <2>2 DEF Published
  <2>4. vex_resolves_candidate(recipe, a, vex, build, now)
    BY <2>1, <2>2, <2>3 DEF Denies, AssessmentDenies, Open
  <2>5. PICK i \in 1..Len(vex) :
           /\ ExceptionFor(recipe, a, layer, vex[i])
           /\ \A j \in (i + 1)..Len(vex) : ~ExceptionFor(recipe, a, layer, vex[j])
           /\ vex[i].status = "not_affected"
           /\ vex_statement_is_unexpired(vex[i], now)
    BY <2>4 DEF vex_resolves_candidate
  <2>6. PICK k \in 1..Len(vex) :
           /\ k >= i
           /\ k = i \/ SameVexKey(vex[i], vex[k])
           /\ \A j \in (k + 1)..Len(vex) : ~SameVexKey(vex[k], vex[j])
    BY NewestExists
  \* The newest statement with the key of the exception denies, or is the exception itself.
  <2>7. vex[k].status = "not_affected"
    BY <1>2, <2>6 DEF Posted
  <2>8. k = i
    <3>1. vex[k].evidenced
      BY <2>7 DEF Posted
    <3>2. SameVexKey(vex[i], vex[k]) => ExceptionFor(recipe, a, layer, vex[k])
      BY <1>1, <2>5, <3>1 DEF ExceptionFor, SameVexKey
    <3> QED
      BY <2>5, <2>6, <3>2
  <2>9. external_statement_is_active(recipe, vex[i], product, now)
    BY <1>1, <2>1, <2>5 DEF external_statement_is_active, ExceptionFor, Posted
  <2>10. i \in active
    BY <2>6, <2>8, <2>9 DEF ActiveAt
  <2>11. Overrides(vex[i], s)
    BY <2>3, <2>5 DEF Overrides, ExceptionFor
  <2> QED
    BY <1>4, <2>10, <2>11
<1> QED
  BY <1>3, <1>4 DEF combined_vex_statements
=============================================================================
