-------------------------- MODULE VexLedger_proofs --------------------------
(***************************************************************************)
(* That no acknowledged statement is lost while no handler is abandoned    *)
(* inside a file operation, and that the published document agrees with    *)
(* the gate, for any number of concurrent add_vex requests, layers,        *)
(* assessments and statements.                                             *)
(***************************************************************************)
EXTENDS VexLedger, MetadataDocuments_proofs, FiniteSetTheorems

Filed == {s \in Statement : Posted(Recipe, s)}

TypeOK ==
    /\ file \in Seq(Filed)
    /\ tmp \in Seq(Filed) \cup {None}
    /\ job \in [Posters -> [pc : {"idle", "wait", "write", "rename"},
                            statement : Filed \cup {None}, list : Seq(Filed)]]
    /\ \A c \in Posters : ~Step(c, "idle") => job[c].statement \in Filed
    /\ \A o \in strays : o.list \in Seq(Filed)
    /\ posts \in 0..MaxPosts
    /\ layer \in Layers \cup {None}

\* The holder of vex_lock, and nobody else, is in a file operation: what it writes is the
\* file as it is, with its own statement behind.
Locked ==
    \A c \in Posters : InFileOperation(c) =>
        /\ lock = c
        /\ job[c].list = Append(file, job[c].statement)
        /\ Step(c, "rename") => tmp = job[c].list

\* No statement that waits to be filed is in the file, or waits twice.
Distinct ==
    /\ \A i, j \in 1..Len(file) : file[i].id = file[j].id => i = j
    /\ \A i \in 1..Len(file) : file[i].id <= posts
    /\ \A c \in Posters : ~Step(c, "idle") =>
          /\ job[c].statement.id <= posts
          /\ \A i \in 1..Len(file) : file[i].id # job[c].statement.id
          /\ \A d \in Posters \ {c} : ~Step(d, "idle") => job[d].statement.id # job[c].statement.id

LedgerInv ==
    /\ TypeOK
    /\ ~disturbed => strays = {} /\ Locked /\ Distinct /\ acked \subseteq Stored

-----------------------------------------------------------------------------
(***************************************************************************)
(* Statements.                                                             *)
(***************************************************************************)

\* What add_vex accepts, and no more than its id is added to it.
LEMMA AcceptedIsFiled ==
    ASSUME NEW i \in Inputs, NEW n \in 1..MaxPosts, NEW build, NEW t,
           AcceptsVex(Recipe, build, i, t)
    PROVE  [i EXCEPT !.id = n] \in Filed /\ [i EXCEPT !.id = n].id = n
<1> DEFINE s == [i EXCEPT !.id = n]
<1>1. i \in VexInput
  BY VexAssumption
<1>2. /\ s.id = n /\ s.recipe_digest = i.recipe_digest /\ s.status = i.status
      /\ s.component = i.component /\ s.evidenced = i.evidenced
      /\ i.status \in {"not_affected", "affected", "fixed", "under_investigation"}
  BY <1>1 DEF VexInput
<1>3. s \in Statement
  BY DEF Statement
<1> HIDE DEF s
<1>4. s \in Filed
  BY <1>2, <1>3 DEF Filed, Posted, Open, AcceptsVex
<1> QED
  BY <1>2, <1>4 DEF s

LEMMA FiledId ==
    ASSUME NEW s \in Filed
    PROVE  s.id \in 1..MaxPosts
<1>1. PICK i \in Inputs, n \in 1..MaxPosts : s = [i EXCEPT !.id = n]
  BY DEF Filed, Statement
<1>2. i \in VexInput
  BY VexAssumption
<1> QED
  BY <1>1, <1>2 DEF VexInput

LEMMA AppendStored ==
    ASSUME NEW S, NEW s \in Seq(S), NEW e \in S
    PROVE  /\ Append(s, e) \in Seq(S)
           /\ Len(Append(s, e)) = Len(s) + 1 /\ Len(s) \in Nat
           /\ \A i \in 1..Len(s) : Append(s, e)[i] = s[i]
           /\ Append(s, e)[Len(s) + 1] = e
OBVIOUS

-----------------------------------------------------------------------------
(***************************************************************************)
(* The invariant.                                                          *)
(***************************************************************************)
LEMMA InitLedger == Init => LedgerInv
<1> SUFFICES ASSUME Init PROVE LedgerInv
  OBVIOUS
<1> USE VexAssumption DEF Init, IdleJob
<1>1. TypeOK
  BY DEF TypeOK, Step
<1>2. Locked /\ Distinct /\ acked \subseteq Stored /\ strays = {}
  BY DEF Locked, Distinct, Stored, InFileOperation, Step
<1> QED
  BY <1>1, <1>2 DEF LedgerInv

LEMMA TypeStep == TypeOK /\ [Next]_vars => TypeOK'
<1> SUFFICES ASSUME TypeOK, [Next]_vars PROVE TypeOK'
  OBVIOUS
<1> USE VexAssumption
<1> DEFINE JobType == [pc : {"idle", "wait", "write", "rename"},
                       statement : Filed \cup {None}, list : Seq(Filed)]
<1>1. IdleJob \in JobType /\ \A c \in Posters : job[c] \in JobType
  BY DEF TypeOK, IdleJob
<1>2. ASSUME NEW c \in Posters, NEW i \in Inputs, Post(c, i) PROVE TypeOK'
  <2>1. posts' \in 1..MaxPosts
    BY <1>2 DEF Post, TypeOK
  <2>2. PICK s : s = [i EXCEPT !.id = posts']
    OBVIOUS
  <2>3. s \in Filed
    BY <1>2, <2>1, <2>2, AcceptedIsFiled DEF Post
  <2>4. PICK k \in JobType : k = IdleJob
    BY <1>1
  <2>5. PICK j : j = [k EXCEPT !.pc = "wait", !.statement = s]
    OBVIOUS
  <2>6. j \in JobType
    BY <2>3, <2>5
  <2>7. j.statement = s
    BY <2>5
  <2>8. job' = [job EXCEPT ![c] = j]
    <3>1. job' = [job EXCEPT ![c] = [IdleJob EXCEPT !.pc = "wait",
                                                    !.statement = [i EXCEPT !.id = posts']]]
      BY <1>2 DEF Post
    <3> QED
      BY <2>2, <2>4, <2>5, <3>1
  <2>9. job' \in [Posters -> JobType]
    <3>1. job \in [Posters -> JobType]
      BY DEF TypeOK
    <3> HIDE DEF JobType
    <3> QED
      BY <2>6, <2>8, <3>1
  <2>10. \A d \in Posters : ~Step(d, "idle")' => job'[d].statement \in Filed
    BY <2>3, <2>7, <2>8 DEF TypeOK, Step
  <2>11. /\ posts' \in 0..MaxPosts
         /\ file' = file /\ tmp' = tmp /\ strays' = strays /\ layer' = layer
    BY <1>2, <2>1 DEF Post
  <2> QED
    BY <2>9, <2>10, <2>11 DEF TypeOK
<1>3. ASSUME NEW c \in Posters, Enter(c) PROVE TypeOK'
  <2>1. job[c].statement \in Filed /\ file \in Seq(Filed)
    BY <1>3 DEF Enter, TypeOK, Step
  <2>2. Append(file, job[c].statement) \in Seq(Filed)
    BY <2>1, AppendStored
  <2>3. PICK l : l = Append(file, job[c].statement)
    OBVIOUS
  <2>4. job' = [job EXCEPT ![c].pc = "write", ![c].list = l]
    BY <1>3, <2>3 DEF Enter, ReadInto
  <2>5. /\ job' \in [Posters -> JobType]
        /\ \A d \in Posters : job'[d].statement = job[d].statement /\ (~Step(d, "idle")' => ~Step(d, "idle"))
    <3>1. PICK k : k = [job[c] EXCEPT !.pc = "write", !.list = l]
      OBVIOUS
    <3>2. k \in JobType /\ k.statement = job[c].statement
      BY <1>1, <2>2, <2>3, <3>1
    <3>3. job' = [job EXCEPT ![c] = k]
      BY <2>4, <3>1 DEF TypeOK
    <3> QED
      BY <1>3, <3>2, <3>3 DEF TypeOK, Enter, Step
  <2> QED
    BY <1>3, <2>5 DEF TypeOK, Enter
<1>4. ASSUME NEW c \in Posters, WriteTmp(c) PROVE TypeOK'
  BY <1>1, <1>4 DEF TypeOK, WriteTmp, Step
<1>5. ASSUME NEW c \in Posters, RenameTmp(c) PROVE TypeOK'
  BY <1>1, <1>5 DEF TypeOK, RenameTmp, Finish, Step, IdleJob
<1>6. ASSUME NEW c \in Posters, Abort(c) PROVE TypeOK'
  BY <1>1, <1>6 DEF TypeOK, Abort, Finish, Step, IdleJob
<1>7. ASSUME NEW c \in Posters, Abandon(c) PROVE TypeOK'
  BY <1>1, <1>7 DEF TypeOK, Abandon, Finish, Step, IdleJob
<1>8. ASSUME NEW o \in strays, CarryOut(o) PROVE TypeOK'
  BY <1>8 DEF TypeOK, CarryOut, Step
<1>9. CASE Restart
  BY <1>1, <1>9 DEF TypeOK, Restart, Step, IdleJob
<1>10. ASSUME NEW l \in Layers, Rebuild(l) PROVE TypeOK'
  BY <1>10 DEF TypeOK, Rebuild, Step
<1>11. CASE Tick
  BY <1>11 DEF TypeOK, Tick, Step
<1>12. CASE UNCHANGED vars
  BY <1>12 DEF TypeOK, vars, Step
<1> QED
  BY <1>2, <1>3, <1>4, <1>5, <1>6, <1>7, <1>8, <1>9, <1>10, <1>11, <1>12 DEF Next

\* Who waits, and with what: the part of a handler's state that Distinct is about.
LEMMA LedgerStep == LedgerInv /\ [Next]_vars => LedgerInv'
<1> SUFFICES ASSUME LedgerInv, [Next]_vars PROVE LedgerInv'
  OBVIOUS
<1> USE VexAssumption
<1>1. TypeOK /\ TypeOK'
  BY TypeStep DEF LedgerInv
<1> DEFINE Undisturbed == strays = {} /\ Locked /\ Distinct /\ acked \subseteq Stored
<1> SUFFICES ASSUME ~disturbed' PROVE Undisturbed'
  BY <1>1 DEF LedgerInv
<1>2. ~disturbed
  BY DEF Next, vars, Post, Enter, WriteTmp, RenameTmp, Abort, Abandon, CarryOut, Restart,
         Rebuild, Tick
<1>3. strays = {} /\ Locked /\ Distinct /\ acked \subseteq Stored
  BY <1>2 DEF LedgerInv
<1>4. ASSUME NEW c \in Posters, NEW i \in Inputs, Post(c, i) PROVE Undisturbed'
  <2>1. PICK s : s = [i EXCEPT !.id = posts']
    OBVIOUS
  <2>2. s.id = posts + 1 /\ posts' = posts + 1 /\ posts \in Nat
    <3>1. posts' \in 1..MaxPosts
      BY <1>1, <1>4 DEF Post, TypeOK
    <3> QED
      BY <1>1, <1>4, <2>1, <3>1, AcceptedIsFiled DEF Post, TypeOK
  <2>3. PICK j : j = [IdleJob EXCEPT !.pc = "wait", !.statement = s]
    OBVIOUS
  <2>4. j.pc = "wait" /\ j.statement = s
    BY <2>3 DEF IdleJob
  <2>5. job' = [job EXCEPT ![c] = j]
    BY <1>4, <2>1, <2>3 DEF Post
  <2>6. \A d \in Posters : job'[d] = IF d = c THEN j ELSE job[d]
    BY <1>1, <2>5 DEF TypeOK
  <2>7. Locked'
    BY <1>3, <1>4, <2>4, <2>6 DEF Locked, InFileOperation, Step, Post
  <2>8. Distinct'
    <3>1. \A n \in 1..Len(file) : file[n].id \in Nat /\ file[n].id <= posts
      BY <1>1, <1>3, FiledId DEF TypeOK, Distinct
    <3>2. \A d \in Posters : ~Step(d, "idle") => job[d].statement.id \in Nat /\ job[d].statement.id <= posts
      BY <1>1, <1>3, FiledId DEF TypeOK, Distinct
    <3> QED
      BY <1>3, <1>4, <2>2, <2>4, <2>6, <3>1, <3>2 DEF Distinct, Step, Post
  <2> QED
    BY <1>3, <1>4, <2>7, <2>8 DEF Post, Stored
<1>5. ASSUME NEW c \in Posters, Enter(c) PROVE Undisturbed'
  <2>1. PICK l : l = Append(file, job[c].statement)
    OBVIOUS
  <2>2. /\ job' = [job EXCEPT ![c].pc = "write", ![c].list = l]
        /\ lock = None /\ lock' = c /\ Step(c, "wait")
    BY <1>5, <2>1 DEF Enter, ReadInto
  <2>3. /\ \A d \in Posters : job'[d].statement = job[d].statement
        /\ \A d \in Posters \ {c} : job'[d] = job[d]
        /\ job'[c].pc = "write" /\ job'[c].list = l
    BY <1>1, <2>2 DEF TypeOK
  <2>4. Locked'
    <3>1. \A d \in Posters \ {c} : ~InFileOperation(d)'
      BY <1>3, <2>2, <2>3 DEF Locked, InFileOperation, Step
    <3>2. job'[c].list = Append(file', job'[c].statement) /\ ~Step(c, "rename")'
      BY <1>5, <2>1, <2>3 DEF Enter, Step
    <3> QED
      BY <2>2, <3>1, <3>2 DEF Locked, InFileOperation
  <2>5. Distinct'
    <3>1. \A d \in Posters : ~Step(d, "idle")' => ~Step(d, "idle")
      BY <2>2, <2>3 DEF Step
    <3>2. file' = file /\ posts' = posts
      BY <1>5 DEF Enter
    <3> QED
      BY <1>3, <2>3, <3>1, <3>2 DEF Distinct
  <2> QED
    BY <1>3, <1>5, <2>4, <2>5 DEF Enter, Stored
<1>6. ASSUME NEW c \in Posters, WriteTmp(c) PROVE Undisturbed'
  <2>1. /\ job' = [job EXCEPT ![c].pc = "rename"] /\ tmp' = job[c].list /\ lock' = lock
        /\ Step(c, "write") /\ lock = c
    BY <1>3, <1>6 DEF WriteTmp, Locked, InFileOperation, Step
  <2>2. /\ \A d \in Posters : job'[d].statement = job[d].statement /\ job'[d].list = job[d].list
        /\ \A d \in Posters \ {c} : job'[d].pc = job[d].pc
        /\ job'[c].pc = "rename"
    BY <1>1, <2>1 DEF TypeOK
  <2>3. Locked'
    BY <1>3, <1>6, <2>1, <2>2 DEF Locked, InFileOperation, Step, WriteTmp
  <2>4. Distinct'
    BY <1>3, <1>6, <2>1, <2>2 DEF Distinct, Step, WriteTmp
  <2> QED
    BY <1>3, <1>6, <2>3, <2>4 DEF WriteTmp, Stored
<1>7. ASSUME NEW c \in Posters, Abort(c) \/ RenameTmp(c)
      PROVE  /\ job'[c].pc = "idle" /\ \A d \in Posters \ {c} : job'[d] = job[d]
             /\ lock' = IF lock = c THEN None ELSE lock
             /\ posts' = posts /\ strays' = strays
  BY <1>1, <1>7 DEF TypeOK, Abort, RenameTmp, Finish, Release, IdleJob
<1>8. ASSUME NEW c \in Posters, Abort(c) PROVE Undisturbed'
  <2>1. file' = file /\ tmp' = tmp /\ acked' = acked
    BY <1>8 DEF Abort
  <2>2. Locked'
    BY <1>3, <1>7, <1>8, <2>1 DEF Locked, InFileOperation, Step
  <2>3. Distinct'
    BY <1>3, <1>7, <1>8, <2>1 DEF Distinct, Step
  <2> QED
    BY <1>3, <1>7, <1>8, <2>1, <2>2, <2>3 DEF Stored
<1>9. ASSUME NEW c \in Posters, RenameTmp(c) PROVE Undisturbed'
  <2>1. /\ Step(c, "rename") /\ lock = c
        /\ \A d \in Posters \ {c} : ~InFileOperation(d)
    BY <1>3, <1>9 DEF Locked, InFileOperation, Step, RenameTmp
  <2>2. Locked'
    BY <1>7, <1>9, <2>1 DEF Locked, InFileOperation, Step
  <2>3. CASE tmp = None
    <3>1. file' = file /\ acked' = acked
      BY <1>9, <2>3 DEF RenameTmp
    <3>2. Distinct'
      BY <1>3, <1>7, <1>9, <3>1 DEF Distinct, Step
    <3> QED
      BY <1>3, <1>7, <1>9, <2>2, <3>1, <3>2 DEF Stored
  <2>4. CASE tmp # None
    <3>1. PICK s : s = job[c].statement
      OBVIOUS
    <3>2. file' = Append(file, s) /\ acked' = acked \cup {s} /\ s \in Filed /\ file \in Seq(Filed)
      BY <1>1, <1>3, <1>9, <2>1, <2>4, <3>1
         DEF RenameTmp, Locked, InFileOperation, Step, TypeOK
    <3>3. /\ Len(file') = Len(file) + 1 /\ Len(file) \in Nat
          /\ \A i \in 1..Len(file) : file'[i] = file[i]
          /\ file'[Len(file) + 1] = s
      BY <3>2, AppendStored
    <3>4. \A i \in 1..Len(file') : i \in 1..Len(file) \/ i = Len(file) + 1
      BY <3>3
    <3>5. acked' \subseteq Stored'
      BY <1>3, <3>2, <3>3 DEF Stored
    <3>6. Distinct'
      <4>1. /\ s.id <= posts
            /\ \A i \in 1..Len(file) : file[i].id # s.id
            /\ \A d \in Posters \ {c} : ~Step(d, "idle") => job[d].statement.id # s.id
        BY <1>3, <2>1, <3>1 DEF Distinct, Step
      <4>2. \A i, j \in 1..Len(file') : file'[i].id = file'[j].id => i = j
        BY <1>3, <3>3, <3>4, <4>1 DEF Distinct
      <4>3. \A i \in 1..Len(file') : file'[i].id <= posts'
        BY <1>3, <1>7, <1>9, <3>3, <3>4, <4>1 DEF Distinct
      <4>4. \A d \in Posters : ~Step(d, "idle")' =>
               /\ job'[d].statement.id <= posts'
               /\ \A i \in 1..Len(file') : file'[i].id # job'[d].statement.id
               /\ \A e \in Posters \ {d} :
                     ~Step(e, "idle")' => job'[e].statement.id # job'[d].statement.id
        <5> TAKE d \in Posters
        <5> HAVE ~Step(d, "idle")'
        <5>1. d # c /\ job'[d] = job[d] /\ ~Step(d, "idle")
          BY <1>7, <1>9 DEF Step
        <5>2. \A i \in 1..Len(file') : file'[i].id # job[d].statement.id
          BY <1>3, <3>3, <3>4, <4>1, <5>1 DEF Distinct
        <5>3. \A e \in Posters \ {d} : ~Step(e, "idle")' => job'[e].statement.id # job[d].statement.id
          BY <1>3, <1>7, <1>9, <5>1 DEF Distinct, Step
        <5> QED
          BY <1>3, <1>7, <1>9, <5>1, <5>2, <5>3 DEF Distinct
      <4> QED
        BY <4>2, <4>3, <4>4 DEF Distinct
    <3> QED
      BY <1>3, <1>7, <1>9, <2>2, <3>5, <3>6
  <2> QED
    BY <2>3, <2>4
<1>10. ASSUME NEW c \in Posters, Abandon(c) PROVE FALSE
  BY <1>10 DEF Abandon
<1>11. CASE Restart
  BY <1>3, <1>11 DEF Restart, Locked, Distinct, Stored, InFileOperation, Step, IdleJob
<1>12. ASSUME UNCHANGED <<file, tmp, lock, job, strays, acked, posts>> PROVE Undisturbed'
  BY <1>3, <1>12 DEF Locked, Distinct, Stored, InFileOperation, Step
<1>13. ASSUME NEW l \in Layers, Rebuild(l) PROVE Undisturbed'
  BY <1>12, <1>13 DEF Rebuild
<1>14. CASE Tick \/ UNCHANGED vars
  BY <1>12, <1>14 DEF Tick, vars
<1> QED
  BY <1>3, <1>4, <1>5, <1>6, <1>8, <1>9, <1>10, <1>11, <1>13, <1>14 DEF Next

LEMMA LedgerInvariance == Spec => []LedgerInv
BY InitLedger, LedgerStep, PTL DEF Spec

-----------------------------------------------------------------------------
(***************************************************************************)
(* Acknowledged statements.                                                *)
(***************************************************************************)

\* A file whose statements have different ids has as many statements as entries.
LEMMA DistinctIsCounted ==
    ASSUME TypeOK, Distinct
    PROVE  Cardinality(Stored) = Len(file)
<1> DEFINE n == Len(file)
           f == [i \in 1..n |-> file[i]]
<1>1. n \in Nat
  BY DEF TypeOK
<1>2. f \in Bijection(1..n, Stored)
  BY DEF Stored, Distinct, Bijection, Injection, Surjection, IsInjective
<1>3. IsFiniteSet(1..n) /\ Cardinality(1..n) = n
  BY <1>1, FS_Interval
<1> QED
  BY <1>2, <1>3, FS_Bijection DEF ExistsBijection

\* NothingLost holds for any number of concurrent requests: the statements that were
\* acknowledged are in the file, each of them once, as long as no handler was abandoned
\* inside a file operation.
THEOREM AcknowledgedIsKept == Spec => []NothingLost
<1>1. LedgerInv => NothingLost
  BY DistinctIsCounted DEF LedgerInv, NothingLost
<1> QED
  BY <1>1, LedgerInvariance, PTL

-----------------------------------------------------------------------------
(***************************************************************************)
(* The gate and the published document.                                    *)
(***************************************************************************)

\* PublishedAgrees holds for any assessments and statements: whenever the gate allows the
\* layer, the document that GET .../vex publishes names no open vulnerability.
THEOREM DocumentAgrees == Spec => []PublishedAgrees
<1>1. ASSUME TypeOK, Verdict = "allowed", NEW s \in PublishedStatements
      PROVE  s.status \notin Open
  <2>1. ~Denies(Recipe, Build, LayerScan, file, now)
    BY <1>1 DEF Verdict, evaluate_gate
  <2>2. file \in Seq(Filed)
    BY <1>1 DEF TypeOK
  <2>3. Len(file) \in Nat /\ \A i \in 1..Len(file) : Posted(Recipe, file[i])
    BY <2>2 DEF Filed
  <2>4. LayerScan # None => LayerScan.layers = {Build.artifact.digest}
    BY DEF LayerScan, Build
  <2> QED
    BY <1>1, <2>1, <2>3, <2>4, AllowedIsClosed DEF PublishedStatements
<1>2. LedgerInv => PublishedAgrees
  BY <1>1 DEF LedgerInv, PublishedAgrees, Open
<1> QED
  BY <1>2, LedgerInvariance, PTL
=============================================================================
