------------------------ MODULE CacheRetention_proofs ------------------------
(***************************************************************************)
(* What the sweep removes under a promise, for any recipes, layers and     *)
(* number of concurrent imports: a proof that EvictionsExplained names     *)
(* every situation.                                                        *)
(***************************************************************************)
EXTENDS CacheRetention, FiniteSetTheorems, WellFoundedInduction, TLAPS

Age == Nat \cup {None}

Promise == [digest : Digests, left : Nat, old : BOOLEAN]

Import ==
    [pc : {"idle", "copied", "linked"}, recipe : Recipes \cup {None},
     digest : Digests \cup {None}, left : Nat, old : BOOLEAN]

TypeOK ==
    /\ age \in [Files -> Age]
    /\ promise \in [Recipes -> Promise \cup {None}]
    /\ job \in [Imports -> Import]
    /\ \A i \in Imports : ~Step(i, "idle") => job[i].recipe \in Recipes /\ job[i].digest \in Digests

\* The file of the digest, if there is one, reaches the recipe's TTL no sooner than the time n
\* has run out.
Outlives(d, n, r) == n <= Ttl[r] /\ (age[d] # None => age[d] + n <= Ttl[r])

\* A file that was not old when it was promised outlives the promise.
PromiseInv ==
    \A r \in Recipes : promise[r] # None /\ Ttl[r] > 0 =>
        /\ promise[r].left > 0
        /\ ~promise[r].old => Outlives(promise[r].digest, promise[r].left, r)

\* So it is with a promise computed and not yet on record, while it has not run out.
ImportInv ==
    \A i \in Imports : Step(i, "linked") /\ job[i].left > 0 /\ ~job[i].old =>
        Outlives(job[i].digest, job[i].left, job[i].recipe)

RetentionInv == TypeOK /\ PromiseInv /\ ImportInv

-----------------------------------------------------------------------------
(***************************************************************************)
(* The map of TTLs.                                                        *)
(***************************************************************************)

\* Of finitely many recipes one asks for the longest TTL.
LEMMA LongestTtl ==
    ASSUME NEW K \in SUBSET Recipes, K # {}
    PROVE  \E s \in K : \A r \in K : Ttl[r] <= Ttl[s]
<1> DEFINE Longest(S) == \E s \in S : \A r \in S : Ttl[r] <= Ttl[s]
           Bad == {S \in SUBSET K : S # {} /\ ~Longest(S)}
           Sizes == {Cardinality(S) : S \in Bad}
           Below == OpToRel(<, Nat)
<1>1. \A S \in SUBSET K : IsFiniteSet(S) /\ Cardinality(S) \in Nat
  BY RetentionAssumption, FS_Subset, FS_CardinalityType
<1>2. SUFFICES ASSUME Bad # {} PROVE FALSE
  OBVIOUS
<1>3. PICK n \in Sizes : \A m \in Sizes : ~(<<m, n>> \in Below)
  <2>1. Sizes \subseteq Nat /\ Sizes # {}
    BY <1>1, <1>2
  <2> QED
    BY <2>1, NatLessThanWellFounded, WFMin
<1>4. PICK S \in Bad : n = Cardinality(S)
  BY <1>3
<1>5. PICK x \in S : TRUE
  BY <1>4
<1> DEFINE T == S \ {x}
<1>6. T \in SUBSET K /\ Cardinality(T) = n - 1 /\ n \in Nat /\ n - 1 \in Nat
  <2>1. IsFiniteSet(S) /\ T \in SUBSET K
    BY <1>1, <1>4
  <2>2. Cardinality(T) = Cardinality(S) - 1
    BY <1>5, <2>1, FS_RemoveElement
  <2> QED
    BY <1>1, <1>4, <2>1, <2>2
<1>7. T \notin Bad
  <2>1. SUFFICES ASSUME T \in Bad PROVE FALSE
    OBVIOUS
  <2>2. n - 1 \in Sizes
    BY <1>6, <2>1
  <2>3. <<n - 1, n>> \in Below
    BY <1>6 DEF OpToRel
  <2> QED
    BY <1>3, <2>2, <2>3
<1>8. \A r \in S : Ttl[r] \in Nat
  BY <1>4, RetentionAssumption
<1>9. CASE T = {}
  <2>1. \A r \in S : Ttl[r] <= Ttl[x]
    BY <1>5, <1>8, <1>9
  <2> QED
    BY <1>4, <1>5, <2>1
<1>10. CASE T # {}
  <2>1. PICK s \in T : \A r \in T : Ttl[r] <= Ttl[s]
    BY <1>6, <1>7, <1>10
  <2>2. CASE Ttl[x] <= Ttl[s]
    <3>1. \A r \in S : Ttl[r] <= Ttl[s]
      BY <2>1, <2>2
    <3> QED
      BY <1>4, <2>1, <3>1
  <2>3. CASE ~(Ttl[x] <= Ttl[s])
    <3>1. \A r \in S : Ttl[r] <= Ttl[x]
      <4> TAKE r \in S
      <4>1. Ttl[r] \in Nat /\ Ttl[x] \in Nat /\ Ttl[s] \in Nat
        BY <1>5, <1>8, <2>1
      <4>2. r = x \/ Ttl[r] <= Ttl[s]
        BY <2>1
      <4> QED
        BY <2>3, <4>1, <4>2
    <3> QED
      BY <1>4, <1>5, <3>1
  <2> QED
    BY <2>2, <2>3
<1> QED
  BY <1>9, <1>10

\* sweep_ttl is the TTL of a recipe that knows the digest, and no other's is longer.
LEMMA SweepTtl ==
    ASSUME NEW f, NEW r \in Knowing(f)
    PROVE  /\ Ttl[r] <= sweep_ttl(f)
           /\ \E s \in Knowing(f) : sweep_ttl(f) = Ttl[s]
<1> DEFINE K == Knowing(f)
           IsLongest(t) == t \in {Ttl[s] : s \in K} /\ \A s \in K : Ttl[s] <= t
<1>1. K \in SUBSET Recipes /\ K # {}
  BY DEF Knowing
<1>2. PICK s \in K : \A q \in K : Ttl[q] <= Ttl[s]
  <2> HIDE DEF K
  <2> QED
    BY <1>1, LongestTtl
<1>3. sweep_ttl(f) = CHOOSE t \in {Ttl[q] : q \in K} : \A q \in K : Ttl[q] <= t
  BY <1>1 DEF sweep_ttl
<1> HIDE DEF K
<1>4. IsLongest(sweep_ttl(f))
  BY <1>2, <1>3
<1> QED
  BY <1>4 DEF K

-----------------------------------------------------------------------------
(***************************************************************************)
(* The invariant.                                                          *)
(***************************************************************************)
LEMMA InitRetention == Init => RetentionInv
BY RetentionAssumption
   DEF Init, RetentionInv, TypeOK, PromiseInv, ImportInv, Step, Age, Idle, Import

LEMMA StepRetention == RetentionInv /\ [Next]_vars => RetentionInv'
<1> SUFFICES ASSUME RetentionInv, [Next]_vars PROVE RetentionInv'
  OBVIOUS
<1> USE RetentionAssumption
<1>1. /\ \A f \in Files : age[f] \in Age
      /\ \A r \in Recipes : Ttl[r] \in Nat /\ (promise[r] # None => promise[r] \in Promise)
      /\ \A i \in Imports : job[i] \in Import
      /\ Digests \subseteq Files /\ Imports \subseteq Files
  BY DEF RetentionInv, TypeOK, Files
\* Whatever an import does to its private file, files of digests keep their age.
<1>2. ASSUME age' \in [Files -> Age], promise' = promise, \A d \in Digests : age'[d] = age[d]
      PROVE  PromiseInv'
  BY <1>1, <1>2 DEF RetentionInv, PromiseInv, Outlives, Promise
<1>3. ASSUME \A d \in Digests : age'[d] = age[d],
             \A i \in Imports : job'[i] = job[i] \/ job'[i].pc # "linked"
      PROVE  ImportInv'
  BY <1>1, <1>3 DEF RetentionInv, TypeOK, ImportInv, Outlives, Step
<1>4. ASSUME NEW i \in Imports, NEW r \in Recipes, NEW d \in Digests, Copy(i, r, d)
      PROVE  RetentionInv'
  <2>1. TypeOK' /\ \A e \in Digests : age'[e] = age[e]
    BY <1>1, <1>4 DEF RetentionInv, TypeOK, Copy, Age, Import, Step
  <2>2. \A j \in Imports : job'[j] = job[j] \/ job'[j].pc # "linked"
    BY <1>4 DEF RetentionInv, TypeOK, Copy
  <2> QED
    BY <1>2, <1>3, <1>4, <2>1, <2>2 DEF RetentionInv, TypeOK, Copy
<1>5. ASSUME NEW i \in Imports, Reject(i) \/ Abort(i) PROVE RetentionInv'
  <2>1. age' \in [Files -> Age] /\ \A e \in Digests : age'[e] = age[e]
    BY <1>1, <1>5 DEF RetentionInv, TypeOK, Reject, Abort, Age
  <2>2. Idle \in Import /\ job' = [job EXCEPT ![i] = Idle]
    BY <1>5 DEF Reject, Abort, Finish, Import, Idle
  <2>3. \A j \in Imports : job'[j] = IF j = i THEN Idle ELSE job[j]
    BY <2>2 DEF RetentionInv, TypeOK
  <2>4. TypeOK'
    BY <1>1, <1>5, <2>1, <2>2, <2>3
       DEF RetentionInv, TypeOK, Reject, Abort, Step, Idle
  <2>5. \A j \in Imports : job'[j] = job[j] \/ job'[j].pc # "linked"
    BY <2>3 DEF Idle
  <2> QED
    BY <1>2, <1>3, <1>5, <2>1, <2>4, <2>5 DEF RetentionInv, TypeOK, Reject, Abort
<1>6. ASSUME NEW i \in Imports, Link(i) PROVE RetentionInv'
  <2> DEFINE d == job[i].digest
             linked == IF age[d] = None THEN age[i] ELSE age[d]
             back == age[d] = None /\ linked > 0
             Aged(j) == [j EXCEPT !.old = @ \/ (back /\ j.digest = d)]
  <2>1. job[i] \in Import /\ job[i].recipe \in Recipes /\ d \in Digests /\ i # d
    BY <1>1, <1>6 DEF Link, Step, RetentionInv, TypeOK
  <2>2. linked \in Nat /\ age[d] \in Age
    BY <1>1, <1>6, <2>1 DEF Link, Age
  <2>3. PICK done : done = [job[i] EXCEPT !.pc = "linked", !.left = Ttl[job[i].recipe],
                                         !.old = linked > 0]
    OBVIOUS
  <2>4. /\ done.pc = "linked" /\ done.recipe = job[i].recipe /\ done.digest = d
        /\ done.left = Ttl[job[i].recipe] /\ done.old = (linked > 0)
        /\ done \in Import
    <3> HIDE DEF linked, d
    <3>1. (linked > 0) \in BOOLEAN /\ Ttl[job[i].recipe] \in Nat
      BY <1>1, <2>1
    <3> QED
      BY <1>1, <2>1, <2>3, <3>1 DEF Import, d
  <2>5. \A f \in Files : age'[f] = IF f = d THEN linked ELSE IF f = i THEN None ELSE age[f]
    BY <1>1, <1>6, <2>1 DEF Link, RetentionInv, TypeOK
  <2>6. /\ job' = [[j \in Imports |-> Aged(job[j])] EXCEPT ![i] = done]
        /\ promise' = [r \in Recipes |->
              IF back /\ Promised(r, d) THEN [promise[r] EXCEPT !.old = TRUE] ELSE promise[r]]
    BY <1>6, <2>3 DEF Link
  <2>7. \A j \in Imports : /\ Aged(job[j]) \in Import
                           /\ Aged(job[j]).pc = job[j].pc
                           /\ Aged(job[j]).left = job[j].left
                           /\ Aged(job[j]).recipe = job[j].recipe
                           /\ Aged(job[j]).digest = job[j].digest
                           /\ Aged(job[j]).old = (job[j].old \/ (back /\ job[j].digest = d))
    BY <1>1, <2>2 DEF Import, Age
  <2> HIDE DEF Aged
  <2>8. job' \in [Imports -> Import] /\ \A j \in Imports : job'[j] = IF j = i THEN done ELSE Aged(job[j])
    BY <2>4, <2>6, <2>7
  <2>9. TypeOK'
    <3>1. age' \in [Files -> Age]
      <4>1. age' = [age EXCEPT ![d] = linked, ![i] = None]
        BY <1>6 DEF Link
      <4>2. PICK n : n = linked
        OBVIOUS
      <4>3. age' = [age EXCEPT ![d] = n, ![i] = None] /\ n \in Nat
        BY <2>2, <4>1, <4>2
      <4> QED
        BY <4>3 DEF RetentionInv, TypeOK, Age
    <3>2. promise' \in [Recipes -> Promise \cup {None}]
      BY <2>6, <1>1 DEF Promise, Promised
    <3>3. \A j \in Imports : ~Step(j, "idle")' => job'[j].recipe \in Recipes /\ job'[j].digest \in Digests
      BY <2>1, <2>4, <2>7, <2>8 DEF Step, RetentionInv, TypeOK
    <3> QED
      BY <2>8, <3>1, <3>2, <3>3 DEF TypeOK
  \* A file that comes back aged makes every promise of its digest an old one.
  <2>10. ASSUME NEW e \in Digests, NEW n \in Nat, NEW r \in Recipes, Outlives(e, n, r),
                ~(back /\ e = d)
         PROVE  Outlives(e, n, r)'
    BY <2>10, <1>1, <2>1, <2>2, <2>5 DEF Outlives, Age
  <2>11. PromiseInv'
    <3> SUFFICES ASSUME NEW r \in Recipes, promise'[r] # None, Ttl[r] > 0
                 PROVE  /\ promise'[r].left > 0
                        /\ ~promise'[r].old => Outlives(promise[r].digest, promise[r].left, r)'
      BY DEF PromiseInv
    <3>1. /\ promise[r] # None /\ promise[r] \in Promise
          /\ promise'[r].left = promise[r].left /\ promise'[r].digest = promise[r].digest
          /\ ~promise'[r].old => ~promise[r].old /\ ~(back /\ promise[r].digest = d)
      BY <1>1, <2>6 DEF Promise, Promised
    <3>2. /\ promise[r].left > 0 /\ promise[r].left \in Nat /\ promise[r].digest \in Digests
          /\ ~promise[r].old => Outlives(promise[r].digest, promise[r].left, r)
      BY <3>1 DEF RetentionInv, PromiseInv, Promise
    <3>3. PICK n, e : n = promise[r].left /\ e = promise[r].digest
      OBVIOUS
    <3>4. ~promise'[r].old => Outlives(e, n, r)'
      BY <2>10, <3>1, <3>2, <3>3
    <3> QED
      BY <3>1, <3>2, <3>3, <3>4 DEF Outlives
  <2>12. ImportInv'
    <3> SUFFICES ASSUME NEW j \in Imports, Step(j, "linked")', job'[j].left > 0, ~job'[j].old
                 PROVE  Outlives(job[j].digest, job[j].left, job[j].recipe)'
      BY DEF ImportInv
    <3>1. CASE j = i
      <4>1. linked = 0
        <5>1. ~done.old
          BY <2>8, <3>1
        <5>2. ~(linked > 0)
          BY <2>4, <5>1
        <5> QED
          BY <2>2, <5>2
      <4>2. age'[d] = 0 /\ Ttl[job[i].recipe] \in Nat
        BY <1>1, <2>1, <2>5, <4>1
      <4> QED
        BY <2>4, <2>8, <3>1, <4>2 DEF Outlives
    <3>2. CASE j # i
      <4>1. /\ job'[j].left = job[j].left /\ job'[j].digest = job[j].digest
            /\ job'[j].recipe = job[j].recipe /\ Step(j, "linked")
            /\ ~job[j].old /\ ~(back /\ job[j].digest = d)
        BY <2>7, <2>8, <3>2 DEF Step
      <4>2. /\ Outlives(job[j].digest, job[j].left, job[j].recipe)
            /\ job[j].left \in Nat /\ job[j].digest \in Digests /\ job[j].recipe \in Recipes
        BY <1>1, <4>1 DEF RetentionInv, ImportInv, TypeOK, Step, Import
      <4>3. PICK n, e, r : n = job[j].left /\ e = job[j].digest /\ r = job[j].recipe
        OBVIOUS
      <4>4. Outlives(e, n, r)'
        BY <2>10, <4>1, <4>2, <4>3
      <4> QED
        BY <4>1, <4>3, <4>4 DEF Outlives
    <3> QED
      BY <3>1, <3>2
  <2> QED
    BY <2>9, <2>11, <2>12 DEF RetentionInv
<1>7. ASSUME NEW i \in Imports, Save(i) PROVE RetentionInv'
  <2>1. job[i] \in Import /\ job[i].recipe \in Recipes /\ job[i].digest \in Digests
    BY <1>1, <1>7 DEF Save, Step, RetentionInv, TypeOK
  <2>2. PICK q, p : q = job[i].recipe /\
                    p = IF Ttl[job[i].recipe] > 0 /\ job[i].left = 0 THEN None
                        ELSE [digest |-> job[i].digest, left |-> job[i].left, old |-> job[i].old]
    OBVIOUS
  <2>3. promise' = [promise EXCEPT ![q] = p] /\ age' = age
    BY <1>7, <2>2 DEF Save
  <2>4. p \in Promise \cup {None}
    BY <2>1, <2>2 DEF Promise, Import
  <2>5. TypeOK'
    <3>1. promise' \in [Recipes -> Promise \cup {None}]
      BY <2>1, <2>2, <2>3, <2>4 DEF RetentionInv, TypeOK
    <3> QED
      BY <1>1, <1>7, <2>3, <3>1 DEF RetentionInv, TypeOK, Save, Finish, Import, Step, Idle
  <2>6. PromiseInv'
    <3> SUFFICES ASSUME NEW r \in Recipes, promise'[r] # None, Ttl[r] > 0
                 PROVE  /\ promise'[r].left > 0
                        /\ ~promise'[r].old => Outlives(promise[r].digest, promise[r].left, r)'
      BY DEF PromiseInv
    <3>1. CASE r # q
      BY <2>3, <3>1 DEF RetentionInv, TypeOK, PromiseInv, Outlives
    <3>2. CASE r = q
      <4>1. promise'[r] = p
        BY <2>3, <3>2 DEF RetentionInv, TypeOK
      <4>2. p.left = job[i].left /\ p.digest = job[i].digest /\ p.old = job[i].old /\ p.left > 0
        BY <2>1, <2>2, <3>2, <4>1 DEF Import
      <4>3. ~p.old => Outlives(p.digest, p.left, q)
        BY <1>7, <2>2, <4>2 DEF RetentionInv, ImportInv, Save
      <4> QED
        BY <2>3, <3>2, <4>1, <4>2, <4>3 DEF Outlives
    <3> QED
      BY <3>1, <3>2
  <2>7. \A j \in Imports : job'[j] = job[j] \/ job'[j].pc # "linked"
    BY <1>7 DEF RetentionInv, TypeOK, Save, Finish, Idle
  <2> QED
    BY <1>3, <2>3, <2>5, <2>6, <2>7 DEF RetentionInv
<1>8. ASSUME NEW r \in Recipes, NEW d \in Digests, SaveUnretained(r, d) PROVE RetentionInv'
  BY <1>8 DEF SaveUnretained, RetentionInv, TypeOK, PromiseInv, ImportInv, Outlives, Step
<1>9. CASE StartSweep
  BY <1>9 DEF StartSweep, RetentionInv, TypeOK, PromiseInv, ImportInv, Outlives, Step
<1>10. ASSUME NEW f \in Files, SweepFile(f) PROVE RetentionInv'
  <2>1. /\ age' \in [Files -> Age]
        /\ \A g \in Files : age'[g] = age[g] \/ age'[g] = None
        /\ promise' = promise /\ job' = job
    BY <1>10 DEF SweepFile, RetentionInv, TypeOK, Age
  <2>2. PromiseInv'
    BY <1>1, <2>1 DEF RetentionInv, PromiseInv, Outlives, Promise
  <2>3. ImportInv'
    BY <1>1, <2>1 DEF RetentionInv, ImportInv, TypeOK, Outlives, Step
  <2> QED
    BY <2>1, <2>2, <2>3 DEF RetentionInv, TypeOK, Step
<1>11. ASSUME NEW f \in Files, SweepFails(f) PROVE RetentionInv'
  BY <1>11 DEF SweepFails, RetentionInv, TypeOK, PromiseInv, ImportInv, Outlives, Step
<1>12. CASE Tick
  <2>1. \A f \in Files : /\ age'[f] \in Age
                         /\ age'[f] # None => age[f] # None /\ age'[f] <= age[f] + 1
    BY <1>1, <1>12 DEF Tick, Older, Age
  <2>2. /\ promise' = [r \in Recipes |->
              IF promise[r] = None \/ promise[r].left = 1 THEN None
              ELSE [promise[r] EXCEPT !.left = Less(@)]]
        /\ job' = [i \in Imports |-> [job[i] EXCEPT !.left = Less(@)]]
    BY <1>12 DEF Tick
  <2>3. \A n \in Nat : Less(n) \in Nat /\ (n > 0 => Less(n) = n - 1) /\ (n = 0 => Less(n) = 0)
    BY DEF Less
  <2> HIDE DEF Less
  <2>4. ASSUME NEW e \in Digests, NEW n \in Nat, NEW r \in Recipes, Outlives(e, n, r), n > 0
        PROVE  Outlives(e, n - 1, r)'
    BY <2>4, <1>1, <2>1 DEF Outlives, Age
  <2>5. TypeOK'
    <3>1. age' \in [Files -> Age]
      BY <1>12, <2>1 DEF Tick
    <3>2. promise' \in [Recipes -> Promise \cup {None}]
      BY <1>1, <2>2, <2>3 DEF Promise
    <3>3. job' \in [Imports -> Import]
      BY <1>1, <2>2, <2>3 DEF Import
    <3>4. \A j \in Imports : /\ job'[j].pc = job[j].pc /\ job'[j].recipe = job[j].recipe
                             /\ job'[j].digest = job[j].digest
      BY <1>1, <2>2 DEF Import
    <3> QED
      BY <3>1, <3>2, <3>3, <3>4 DEF TypeOK, RetentionInv, Step
  <2>6. PromiseInv'
    <3> SUFFICES ASSUME NEW r \in Recipes, promise'[r] # None, Ttl[r] > 0
                 PROVE  /\ promise'[r].left > 0
                        /\ ~promise'[r].old => Outlives(promise[r].digest, promise[r].left, r)'
      BY DEF PromiseInv
    <3>1. /\ promise[r] # None /\ promise[r] \in Promise /\ promise[r].left # 1
          /\ promise'[r].left = Less(promise[r].left) /\ promise'[r].digest = promise[r].digest
          /\ promise'[r].old = promise[r].old
      BY <1>1, <2>2 DEF Promise
    <3>2. PICK n, e : n = promise[r].left /\ e = promise[r].digest
      OBVIOUS
    <3>3. /\ n \in Nat /\ n > 1 /\ e \in Digests
          /\ ~promise[r].old => Outlives(e, n, r)
      BY <3>1, <3>2 DEF RetentionInv, PromiseInv, Promise
    <3>4. ~promise[r].old => Outlives(e, n - 1, r)'
      BY <2>4, <3>3
    <3>5. promise'[r].left = n - 1
      BY <2>3, <3>1, <3>2, <3>3
    <3> QED
      BY <3>1, <3>2, <3>3, <3>4, <3>5 DEF Outlives
  <2>7. ImportInv'
    <3> SUFFICES ASSUME NEW j \in Imports, Step(j, "linked")', job'[j].left > 0, ~job'[j].old
                 PROVE  Outlives(job[j].digest, job[j].left, job[j].recipe)'
      BY DEF ImportInv
    <3>1. /\ job'[j].pc = job[j].pc /\ job'[j].recipe = job[j].recipe
          /\ job'[j].digest = job[j].digest /\ job'[j].old = job[j].old
          /\ job'[j].left = Less(job[j].left) /\ job[j].left \in Nat
      BY <1>1, <2>2 DEF Import
    <3>2. PICK n, e, r : n = job[j].left /\ e = job[j].digest /\ r = job[j].recipe
      OBVIOUS
    <3>3. n \in Nat /\ n > 0 /\ job'[j].left = n - 1
      BY <2>3, <3>1, <3>2
    <3>4. e \in Digests /\ r \in Recipes /\ Outlives(e, n, r)
      BY <3>1, <3>2, <3>3 DEF RetentionInv, TypeOK, ImportInv, Step
    <3>5. Outlives(e, n - 1, r)'
      BY <2>4, <3>3, <3>4
    <3> QED
      BY <3>1, <3>2, <3>3, <3>5 DEF Outlives
  <2> QED
    BY <2>5, <2>6, <2>7 DEF RetentionInv
<1>13. CASE UNCHANGED vars
  BY <1>13 DEF vars, RetentionInv, TypeOK, PromiseInv, ImportInv, Outlives, Step
<1> QED
  BY <1>4, <1>5, <1>6, <1>7, <1>8, <1>9, <1>10, <1>11, <1>12, <1>13 DEF Next

-----------------------------------------------------------------------------
\* Only the sweep takes the file of a digest away.
LEMMA OnlySweepRemoves ==
    ASSUME RetentionInv, Next, NEW d \in Digests, Removed(d)
    PROVE  SweepFile(d) /\ IsOverdue(d)
<1> USE RetentionAssumption
<1>1. d \in Files /\ d \notin Imports /\ age \in [Files -> Age]
  BY DEF RetentionInv, TypeOK, Files
<1>2. age[d] # None /\ age[d] \in Nat /\ age'[d] = None
  BY <1>1 DEF Removed, Age
<1>3. ASSUME NEW i \in Imports,
             Reject(i) \/ Save(i) \/ Abort(i) \/ \E r \in Recipes, e \in Digests : Copy(i, r, e)
      PROVE  FALSE
  BY <1>1, <1>2, <1>3 DEF Reject, Save, Abort, Copy
<1>4. ASSUME NEW i \in Imports, Link(i) PROVE FALSE
  BY <1>1, <1>2, <1>4 DEF Link
<1>5. ASSUME NEW f \in Files, SweepFile(f) PROVE f = d /\ IsOverdue(d)
  BY <1>1, <1>2, <1>5 DEF SweepFile
<1>6. ~Tick
  BY <1>1, <1>2 DEF Tick, Older
<1> QED
  BY <1>2, <1>3, <1>4, <1>5, <1>6 DEF Next, SaveUnretained, StartSweep, SweepFails

\* EvictionsExplained holds for any recipes, layers and imports: a layer that a recipe may
\* still serve is swept only when its file was older than the promise, when the sweep had
\* read the records before, or when a recipe that keeps layers for ever shares it with one
\* that does not.
THEOREM Evictions == Spec => EvictionsExplained
<1>1. Init => RetentionInv
  BY InitRetention
<1>2. RetentionInv /\ [Next]_vars => RetentionInv'
  BY StepRetention
<1>3. ASSUME RetentionInv, [Next]_vars
      PROVE  [\A d \in Digests, r \in Recipes :
                 Removed(d) /\ Promised(r, d) =>
                    \/ promise[r].old
                    \/ <<r, d>> \notin sweep.known
                    \/ Ttl[r] = 0 /\ \E s \in Recipes : Ttl[s] > 0 /\ <<s, d>> \in sweep.known]_vars
  <2> SUFFICES ASSUME Next, NEW d \in Digests, NEW r \in Recipes, Removed(d), Promised(r, d),
                      ~promise[r].old, <<r, d>> \in sweep.known
               PROVE  Ttl[r] = 0 /\ \E s \in Recipes : Ttl[s] > 0 /\ <<s, d>> \in sweep.known
    BY <1>3
  <2>1. IsOverdue(d)
    BY <1>3, OnlySweepRemoves
  <2>2. r \in Knowing(d)
    BY DEF Knowing
  <2>3. Ttl[r] <= sweep_ttl(d) /\ \E s \in Knowing(d) : sweep_ttl(d) = Ttl[s]
    BY <2>2, SweepTtl
  <2>4. PICK s \in Knowing(d) : sweep_ttl(d) = Ttl[s]
    BY <2>3
  <2>5. /\ s \in Recipes /\ <<s, d>> \in sweep.known /\ Ttl[s] \in Nat /\ Ttl[r] \in Nat
        /\ age[d] \in Nat /\ Ttl[s] # 0 /\ age[d] > Ttl[s] /\ Ttl[r] <= Ttl[s]
    BY <1>3, <2>1, <2>3, <2>4, RetentionAssumption
       DEF IsOverdue, Knowing, RetentionInv, TypeOK, Age, Files
  <2>6. promise[r] \in Promise /\ promise[r] # None /\ promise[r].digest = d
    BY <1>3 DEF Promised, RetentionInv, TypeOK
  <2>7. CASE Ttl[r] > 0
    <3>1. promise[r].left > 0 /\ Outlives(d, promise[r].left, r)
      BY <1>3, <2>6, <2>7 DEF RetentionInv, PromiseInv
    <3>2. age[d] # None /\ promise[r].left \in Nat
      BY <2>5, <2>6, RetentionAssumption DEF Promise
    <3> QED
      BY <2>5, <3>1, <3>2 DEF Outlives
  <2> QED
    BY <2>5, <2>7
<1> QED
  BY <1>1, <1>2, <1>3, PTL DEF Spec, EvictionsExplained
=============================================================================
