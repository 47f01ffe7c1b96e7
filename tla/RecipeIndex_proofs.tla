-------------------------- MODULE RecipeIndex_proofs --------------------------
(***************************************************************************)
(* Proofs about RecipeIndex, for any inputs, clients and number of posts:  *)
(* its types, that the index is exact, and that what resolves goes on      *)
(* resolving across restarts.                                              *)
(***************************************************************************)
EXTENDS RecipeIndex, WellFoundedInduction, TLAPS

(***************************************************************************)
(* The inductive invariant.  That the index names the right recipe rests   *)
(* on identifiers being unique on disk, and this on what the handlers that *)
(* have not written yet are about to write.                                *)
(***************************************************************************)
Idle(c) == job[c].pc = "idle"

UniqueIds == \A r, s \in disk : r.id = s.id => r = s

StampedBefore == \A r \in disk : r.id < clock

\* A handler has a recipe of its own, which is on disk from the write on.
HasRecipe(c) == ~Idle(c) => job[c].recipe \in Recipe /\ job[c].recipe.id < clock
NotOnDisk(c) ==
    job[c].pc \in {"proposed", "lookup", "write"} => \A r \in disk : r.id # job[c].recipe.id
OnDisk(c) == job[c].pc \in {"index", "blob"} => job[c].recipe \in disk

OwnRecipes ==
    \A c, d \in Creators : c # d /\ ~Idle(c) /\ ~Idle(d) => job[c].recipe.id # job[d].recipe.id

Jobs == \A c \in Creators : HasRecipe(c) /\ NotOnDisk(c) /\ OnDisk(c)

Exact == \A k \in Keys : index[k] # None => \E r \in disk : r.id = index[k] /\ k \in KeysOf(r.input)

IInv == TypeOK /\ UniqueIds /\ StampedBefore /\ Jobs /\ OwnRecipes /\ Exact

-----------------------------------------------------------------------------
(***************************************************************************)
(* Facts about the operators.                                              *)
(***************************************************************************)
\* get_recipe finds the recipe of an identifier that is on disk.
LEMMA GetRecipeFinds ==
    ASSUME UniqueIds, NEW r \in disk
    PROVE  get_recipe(r.id) = r
<1>1. (CHOOSE s \in disk : s.id = r.id) = r
    BY DEF UniqueIds
<1> QED
    BY <1>1 DEF get_recipe

\* What get_recipe finds is on disk.
LEMMA GetRecipeOnDisk ==
    ASSUME NEW id, get_recipe(id) # None
    PROVE  get_recipe(id) \in disk
BY DEF get_recipe

\* Of recipes with stamps below a bound, one is the newest.
LEMMA NewestExists ==
    ASSUME NEW S, S \subseteq Recipe, S # {}, NEW bound \in Nat, \A r \in S : r.id < bound
    PROVE  Newest(S) \in S /\ \A s \in S : s.id <= Newest(S).id
<1> DEFINE Below == OpToRel(<, Nat)
           Ages == {bound - r.id : r \in S}
<1>1. Ages \subseteq Nat /\ Ages # {}
    BY DEF Recipe
<1>2. PICK age \in Ages : \A other \in Ages : ~(<<other, age>> \in Below)
    <2> HIDE DEF Ages, Below
    <2>1. IsWellFoundedOn(OpToRel(<, Nat), Nat)
        BY NatLessThanWellFounded
    <2> QED
        BY <1>1, <2>1, WFMin DEF Below
<1>3. PICK r \in S : age = bound - r.id
    BY <1>2
<1>4. ASSUME NEW s \in S PROVE s.id <= r.id
    <2>1. bound - s.id \in Ages
        OBVIOUS
    <2>2. ~(<<bound - s.id, bound - r.id>> \in Below)
        BY <1>2, <1>3, <2>1
    <2>3. /\ bound - s.id \in Nat /\ bound - r.id \in Nat
          /\ s.id \in Nat /\ r.id \in Nat
        BY <1>1, <1>4, <1>3 DEF Recipe
    <2>4. ~(bound - s.id < bound - r.id)
        BY <2>2, <2>3 DEF OpToRel
    <2> QED
        BY <2>3, <2>4
<1> QED
    BY <1>3, <1>4 DEF Newest

-----------------------------------------------------------------------------
(***************************************************************************)
(* The invariant is inductive.                                             *)
(***************************************************************************)
LEMMA InitInvariant == Init => IInv
<1> SUFFICES ASSUME Init PROVE IInv
    OBVIOUS
<1>1. TypeOK
    BY DEF Init, TypeOK, Job, IdleJob
<1>2. UniqueIds /\ StampedBefore
    BY DEF Init, UniqueIds, StampedBefore
<1>3. Jobs /\ OwnRecipes
    BY DEF Init, Jobs, HasRecipe, NotOnDisk, OnDisk, OwnRecipes, Idle, IdleJob
<1>4. Exact
    BY DEF Init, Exact
<1> QED
    BY <1>1, <1>2, <1>3, <1>4 DEF IInv

\* A handler that is over, or whose work is lost, leaves the other handlers as they are.
LEMMA FinishKeepsJobs ==
    ASSUME IInv, NEW c \in Creators, Finish(c), UNCHANGED <<disk, clock>>
    PROVE  job' \in [Creators -> Job] /\ Jobs' /\ OwnRecipes'
<1>1. job' \in [Creators -> Job]
    BY DEF IInv, TypeOK, Finish, Job, IdleJob
<1>2. \A d \in Creators : job'[d] = IF d = c THEN IdleJob ELSE job[d]
    BY DEF IInv, TypeOK, Finish
<1>3. Jobs'
    BY <1>2 DEF IInv, Jobs, HasRecipe, NotOnDisk, OnDisk, Idle, IdleJob
<1>4. OwnRecipes'
    BY <1>2 DEF IInv, OwnRecipes, Idle, IdleJob
<1> QED
    BY <1>1, <1>3, <1>4

\* A handler that goes on keeps its recipe.
LEMMA GotoKeepsRecipes ==
    ASSUME IInv, NEW c \in Creators, ~Idle(c), NEW to,
           to \in {"lookup", "write", "index", "blob"}, Goto(c, to), clock' = clock
    PROVE  /\ job' \in [Creators -> Job]
           /\ \A d \in Creators : job'[d].recipe = job[d].recipe
           /\ \A d \in Creators : job'[d].pc = IF d = c THEN to ELSE job[d].pc
           /\ \A d \in Creators : HasRecipe(d)'
           /\ OwnRecipes'
<1>1. job' \in [Creators -> Job]
    BY DEF IInv, TypeOK, Goto, Job
<1>2. \A d \in Creators : job'[d].recipe = job[d].recipe
    BY DEF IInv, TypeOK, Goto, Job
<1>3. \A d \in Creators : job'[d].pc = IF d = c THEN to ELSE job[d].pc
    BY DEF IInv, TypeOK, Goto, Job
<1>4. \A d \in Creators : Idle(d)' <=> Idle(d)
    BY <1>3 DEF Idle
<1>5. \A d \in Creators : HasRecipe(d)'
    BY <1>2, <1>4 DEF IInv, Jobs, HasRecipe
<1>6. OwnRecipes'
    BY <1>2, <1>4 DEF IInv, OwnRecipes
<1> QED
    BY <1>1, <1>2, <1>3, <1>5, <1>6

LEMMA ProposeKeepsInvariant ==
    ASSUME IInv, NEW c \in Creators, NEW i \in Inputs, Propose(c, i)
    PROVE  IInv'
<1> DEFINE new == [id |-> clock, input |-> i]
<1>1. /\ job' = [job EXCEPT ![c] = [pc |-> "proposed", recipe |-> new]]
      /\ clock' = clock + 1 /\ clock \in Nat
      /\ UNCHANGED <<disk, index, blobs, lock, answered, written, given_up>>
    BY DEF IInv, TypeOK, Propose, history
<1>2. new \in Recipe
    BY <1>1 DEF Recipe
<1> HIDE DEF new
<1>3. \A d \in Creators :
          job'[d] = IF d = c THEN [pc |-> "proposed", recipe |-> new] ELSE job[d]
    BY <1>1 DEF IInv, TypeOK
<1>4. TypeOK'
    BY <1>1, <1>2 DEF IInv, TypeOK, Job
<1>5. UniqueIds' /\ Exact'
    BY <1>1 DEF IInv, UniqueIds, Exact
<1>6. StampedBefore'
    <2> SUFFICES ASSUME NEW r \in disk PROVE r.id < clock + 1
        BY <1>1 DEF StampedBefore
    <2> QED
        BY <1>1 DEF IInv, StampedBefore, TypeOK, Recipe
<1>7. new.id = clock
    BY DEF new
<1>8. \A d \in Creators : HasRecipe(d)'
    <2> SUFFICES ASSUME NEW d \in Creators, ~Idle(d)'
                 PROVE  job'[d].recipe \in Recipe /\ job'[d].recipe.id < clock + 1
        BY <1>1 DEF HasRecipe
    <2>1. CASE d = c
        BY <1>1, <1>2, <1>3, <1>7, <2>1
    <2>2. CASE d # c
        <3>1. job[d].recipe \in Recipe /\ job[d].recipe.id < clock
            BY <1>3, <2>2 DEF IInv, Jobs, HasRecipe, Idle
        <3> QED
            BY <1>1, <1>3, <2>2, <3>1 DEF Recipe
    <2> QED
        BY <2>1, <2>2
<1>9. \A d \in Creators : NotOnDisk(d)'
    <2>1. \A r \in disk : r.id # clock
        BY <1>1 DEF IInv, StampedBefore, TypeOK, Recipe
    <2> QED
        BY <1>1, <1>3, <1>7, <2>1 DEF IInv, Jobs, NotOnDisk
<1>10. \A d \in Creators : OnDisk(d)'
    BY <1>1, <1>3 DEF IInv, Jobs, OnDisk
<1>11. OwnRecipes'
    <2>1. \A d \in Creators : d # c /\ ~Idle(d) => job[d].recipe.id # clock
        BY <1>1 DEF IInv, Jobs, HasRecipe, Recipe
    <2> QED
        BY <1>3, <1>7, <2>1 DEF IInv, OwnRecipes, Idle
<1> QED
    BY <1>4, <1>5, <1>6, <1>8, <1>9, <1>10, <1>11 DEF IInv, Jobs

LEMMA EnterKeepsInvariant ==
    ASSUME IInv, NEW c \in Creators, Enter(c)
    PROVE  IInv'
<1>1. /\ job[c].pc = "proposed" /\ Goto(c, "lookup") /\ lock' = c
      /\ UNCHANGED <<disk, index, blobs, answered, written, given_up, clock>>
    BY DEF Enter, Step, history
<1>2. /\ job' \in [Creators -> Job] /\ OwnRecipes'
      /\ \A d \in Creators : HasRecipe(d)' /\ job'[d].recipe = job[d].recipe
      /\ \A d \in Creators : job'[d].pc = IF d = c THEN "lookup" ELSE job[d].pc
    BY <1>1, GotoKeepsRecipes DEF Idle
<1>3. TypeOK'
    BY <1>1, <1>2 DEF IInv, TypeOK
<1>4. UniqueIds' /\ StampedBefore' /\ Exact'
    BY <1>1 DEF IInv, UniqueIds, StampedBefore, Exact
<1>5. Jobs'
    BY <1>1, <1>2 DEF IInv, Jobs, NotOnDisk, OnDisk
<1> QED
    BY <1>2, <1>3, <1>4, <1>5 DEF IInv

LEMMA ReturnExistingKeepsInvariant ==
    ASSUME IInv, NEW c \in Creators, ReturnExisting(c)
    PROVE  IInv'
<1> DEFINE own == job[c].recipe
<1>1. /\ job[c].pc = "lookup" /\ Existing(c) # None
      /\ answered' = answered \cup {[input |-> own.input, recipe |-> Existing(c)]}
      /\ lock' = None /\ Finish(c)
      /\ UNCHANGED <<disk, index, blobs, written, given_up, clock>>
    BY DEF ReturnExisting, AnswerWith, Step, history
<1>2. Existing(c) \in Recipe /\ own.input \in Inputs
    <2>1. own \in Recipe
        BY <1>1 DEF IInv, Jobs, HasRecipe, Idle
    <2> QED
        BY <1>1, <2>1, GetRecipeOnDisk DEF Existing, IInv, TypeOK, Recipe
<1>3. job' \in [Creators -> Job] /\ Jobs' /\ OwnRecipes'
    BY <1>1, FinishKeepsJobs
<1>4. TypeOK'
    BY <1>1, <1>2, <1>3 DEF IInv, TypeOK
<1>5. UniqueIds' /\ StampedBefore' /\ Exact'
    BY <1>1 DEF IInv, UniqueIds, StampedBefore, Exact
<1> QED
    BY <1>3, <1>4, <1>5 DEF IInv

LEMMA NotStoredYetKeepsInvariant ==
    ASSUME IInv, NEW c \in Creators, NotStoredYet(c)
    PROVE  IInv'
<1>1. /\ job[c].pc = "lookup" /\ Goto(c, "write")
      /\ UNCHANGED <<disk, index, blobs, lock, answered, written, given_up, clock>>
    BY DEF NotStoredYet, Step, history
<1>2. /\ job' \in [Creators -> Job] /\ OwnRecipes'
      /\ \A d \in Creators : HasRecipe(d)' /\ job'[d].recipe = job[d].recipe
      /\ \A d \in Creators : job'[d].pc = IF d = c THEN "write" ELSE job[d].pc
    BY <1>1, GotoKeepsRecipes DEF Idle
<1>3. TypeOK'
    BY <1>1, <1>2 DEF IInv, TypeOK
<1>4. UniqueIds' /\ StampedBefore' /\ Exact'
    BY <1>1 DEF IInv, UniqueIds, StampedBefore, Exact
<1>5. Jobs'
    BY <1>1, <1>2 DEF IInv, Jobs, NotOnDisk, OnDisk
<1> QED
    BY <1>2, <1>3, <1>4, <1>5 DEF IInv

\* The file is new on disk, and is no other handler's recipe.
LEMMA WriteRecipeKeepsInvariant ==
    ASSUME IInv, NEW c \in Creators, WriteRecipe(c)
    PROVE  IInv'
<1> DEFINE new == job[c].recipe
<1>1. /\ job[c].pc = "write" /\ Goto(c, "index")
      /\ disk' = disk \cup {new} /\ written' = Append(written, new.id)
      /\ UNCHANGED <<index, blobs, lock, answered, given_up, clock>>
    BY DEF WriteRecipe, Step
<1>2. /\ job' \in [Creators -> Job] /\ OwnRecipes'
      /\ \A d \in Creators : HasRecipe(d)' /\ job'[d].recipe = job[d].recipe
      /\ \A d \in Creators : job'[d].pc = IF d = c THEN "index" ELSE job[d].pc
    BY <1>1, GotoKeepsRecipes DEF Idle
<1>3. new \in Recipe /\ new.id < clock
    BY <1>1 DEF IInv, Jobs, HasRecipe, Idle
<1>4. \A r \in disk : r.id # new.id
    BY <1>1 DEF IInv, Jobs, NotOnDisk
<1>5. \A d \in Creators : d # c /\ ~Idle(d) => job[d].recipe.id # new.id
    BY <1>1 DEF IInv, OwnRecipes, Idle
<1> HIDE DEF new
<1>6. TypeOK'
    <2>1. new.id \in Nat /\ written' \in Seq(Nat)
        BY <1>1, <1>3 DEF IInv, TypeOK, Recipe
    <2> QED
        BY <1>1, <1>2, <1>3, <2>1 DEF IInv, TypeOK
<1>7. UniqueIds'
    BY <1>1, <1>4 DEF IInv, UniqueIds
<1>8. StampedBefore'
    BY <1>1, <1>3 DEF IInv, StampedBefore
<1>9. Exact'
    BY <1>1 DEF IInv, Exact
<1>10. \A d \in Creators : NotOnDisk(d)'
    BY <1>1, <1>2, <1>5 DEF IInv, Jobs, NotOnDisk, Idle
<1>11. \A d \in Creators : OnDisk(d)'
    BY <1>1, <1>2 DEF IInv, Jobs, OnDisk, new
<1> QED
    BY <1>2, <1>6, <1>7, <1>8, <1>9, <1>10, <1>11 DEF IInv, Jobs

\* Only a recipe on disk is indexed, and under its own keys.
LEMMA InsertIndexKeepsInvariant ==
    ASSUME IInv, NEW c \in Creators, InsertIndex(c)
    PROVE  IInv'
<1> DEFINE new == job[c].recipe
<1>1. /\ job[c].pc = "index" /\ Goto(c, "blob")
      /\ index' = [k \in Keys |-> IF k \in KeysOf(new.input) THEN new.id ELSE index[k]]
      /\ UNCHANGED <<disk, blobs, lock, answered, written, given_up, clock>>
    BY DEF InsertIndex, Step, history
<1>2. /\ job' \in [Creators -> Job] /\ OwnRecipes'
      /\ \A d \in Creators : HasRecipe(d)' /\ job'[d].recipe = job[d].recipe
      /\ \A d \in Creators : job'[d].pc = IF d = c THEN "blob" ELSE job[d].pc
    BY <1>1, GotoKeepsRecipes DEF Idle
<1>3. new \in disk /\ new.id \in Nat
    BY <1>1 DEF IInv, TypeOK, Jobs, OnDisk, Recipe
<1> HIDE DEF new
<1>4. TypeOK'
    <2>1. index' \in [Keys -> Nat \cup {None}]
        BY <1>1, <1>3 DEF IInv, TypeOK
    <2> QED
        BY <1>1, <1>2, <2>1 DEF IInv, TypeOK
<1>5. UniqueIds' /\ StampedBefore'
    BY <1>1 DEF IInv, UniqueIds, StampedBefore
<1>6. Exact'
    <2> SUFFICES ASSUME NEW k \in Keys, index'[k] # None
                 PROVE  \E r \in disk : r.id = index'[k] /\ k \in KeysOf(r.input)
        BY <1>1 DEF Exact
    <2>1. CASE k \in KeysOf(new.input)
        BY <1>1, <1>3, <2>1
    <2>2. CASE k \notin KeysOf(new.input)
        <3>1. index'[k] = index[k]
            BY <1>1, <2>2
        <3> QED
            BY <3>1 DEF IInv, Exact
    <2> QED
        BY <2>1, <2>2
<1>7. Jobs'
    BY <1>1, <1>2 DEF IInv, Jobs, NotOnDisk, OnDisk
<1> QED
    BY <1>2, <1>4, <1>5, <1>6, <1>7 DEF IInv

LEMMA InsertBlobKeepsInvariant ==
    ASSUME IInv, NEW c \in Creators, InsertBlob(c)
    PROVE  IInv'
<1>1. /\ job[c].pc = "blob" /\ lock' = None /\ Finish(c)
      /\ blobs' = blobs \cup {job[c].recipe.id}
      /\ answered' = answered \cup {[input |-> job[c].recipe.input, recipe |-> job[c].recipe]}
      /\ UNCHANGED <<disk, index, written, given_up, clock>>
    BY DEF InsertBlob, AnswerWith, Step, history
<1>2. job[c].recipe \in Recipe /\ job[c].recipe.id \in Nat /\ job[c].recipe.input \in Inputs
    BY <1>1 DEF IInv, TypeOK, Jobs, OnDisk, Recipe
<1>3. job' \in [Creators -> Job] /\ Jobs' /\ OwnRecipes'
    BY <1>1, FinishKeepsJobs
<1>4. TypeOK'
    <2>1. \A i \in Inputs, r \in Recipe :
             [input |-> i, recipe |-> r] \in [input: Inputs, recipe: Recipe]
        OBVIOUS
    <2>2. [input |-> job[c].recipe.input, recipe |-> job[c].recipe]
             \in [input: Inputs, recipe: Recipe]
        BY <1>2, <2>1
    <2> QED
        BY <1>1, <1>2, <1>3, <2>2 DEF IInv, TypeOK
<1>5. UniqueIds' /\ StampedBefore' /\ Exact'
    BY <1>1 DEF IInv, UniqueIds, StampedBefore, Exact
<1> QED
    BY <1>3, <1>4, <1>5 DEF IInv

LEMMA AbortKeepsInvariant ==
    ASSUME IInv, NEW c \in Creators, Abort(c)
    PROVE  IInv'
<1>1. /\ job[c].pc # "idle" /\ Finish(c)
      /\ lock' = IF lock = c THEN None ELSE lock
      /\ given_up' = IF job[c].pc = "blob" THEN given_up \cup {job[c].recipe.id} ELSE given_up
      /\ UNCHANGED <<disk, index, blobs, answered, written, clock>>
    BY DEF Abort, Step
<1>2. job[c].recipe.id \in Nat
    BY <1>1 DEF IInv, Jobs, HasRecipe, Idle, Recipe
<1>3. job' \in [Creators -> Job] /\ Jobs' /\ OwnRecipes'
    BY <1>1, FinishKeepsJobs
<1>4. TypeOK'
    <2>1. lock' \in Creators \cup {None} /\ given_up' \subseteq Nat
        BY <1>1, <1>2 DEF IInv, TypeOK
    <2> QED
        BY <1>1, <1>3, <2>1 DEF IInv, TypeOK
<1>5. UniqueIds' /\ StampedBefore' /\ Exact'
    BY <1>1 DEF IInv, UniqueIds, StampedBefore, Exact
<1> QED
    BY <1>3, <1>4, <1>5 DEF IInv

\* The rebuilt index names, for a key, a recipe on disk that has it, if there is one.
LEMMA RebuildFinds ==
    ASSUME IInv, rebuild_index, NEW k \in Keys
    PROVE  IF HavingKey(k) = {} THEN index'[k] = None
           ELSE \E r \in HavingKey(k) : index'[k] = r.id
<1>1. index'[k] = IF HavingKey(k) = {} THEN None ELSE Newest(HavingKey(k)).id
    BY DEF rebuild_index
<1>2. ASSUME HavingKey(k) # {} PROVE Newest(HavingKey(k)) \in HavingKey(k)
    <2>1. /\ HavingKey(k) \subseteq Recipe /\ clock \in Nat
          /\ \A r \in HavingKey(k) : r.id < clock
        BY DEF HavingKey, IInv, TypeOK, StampedBefore
    <2> QED
        BY <1>2, <2>1, NewestExists
<1> QED
    BY <1>1, <1>2

LEMMA RestartKeepsInvariant ==
    ASSUME IInv, Restart
    PROVE  IInv'
<1>1. /\ rebuild_index /\ lock' = None
      /\ job' = [c \in Creators |-> IdleJob]
      /\ answered' = {} /\ given_up' = {} /\ UNCHANGED <<disk, written, clock>>
    BY DEF Restart
<1>2. \A r \in disk : r.id \in Nat
    BY DEF IInv, TypeOK, Recipe
<1>3. \A k \in Keys : \/ index'[k] = None
                     \/ \E r \in disk : r.id = index'[k] /\ k \in KeysOf(r.input)
    BY <1>1, RebuildFinds DEF HavingKey
<1>4. index' \in [Keys -> Nat \cup {None}]
    <2>1. \A k \in Keys : index'[k] \in Nat \cup {None}
        BY <1>2, <1>3
    <2>2. index' = [k \in Keys |-> index'[k]]
        BY <1>1 DEF rebuild_index
    <2> QED
        BY <2>1, <2>2
<1>5. blobs' \subseteq Nat
    BY <1>1, <1>2 DEF rebuild_index
<1>6. TypeOK'
    BY <1>1, <1>4, <1>5 DEF IInv, TypeOK, Job, IdleJob
<1>7. UniqueIds' /\ StampedBefore'
    BY <1>1 DEF IInv, UniqueIds, StampedBefore
<1>8. Exact'
    BY <1>1, <1>3 DEF Exact
<1>9. Jobs' /\ OwnRecipes'
    BY <1>1 DEF Jobs, HasRecipe, NotOnDisk, OnDisk, OwnRecipes, Idle, IdleJob
<1> QED
    BY <1>6, <1>7, <1>8, <1>9 DEF IInv

LEMMA StepKeepsInvariant == IInv /\ [Next]_vars => IInv'
<1> SUFFICES ASSUME IInv, [Next]_vars PROVE IInv'
    OBVIOUS
<1>1. ASSUME NEW c \in Creators, Create(c) PROVE IInv'
    BY <1>1, EnterKeepsInvariant, ReturnExistingKeepsInvariant, NotStoredYetKeepsInvariant,
       WriteRecipeKeepsInvariant, InsertIndexKeepsInvariant, InsertBlobKeepsInvariant DEF Create
<1>2. ASSUME UNCHANGED vars PROVE IInv'
    <2>1. UNCHANGED <<disk, index, blobs, lock, job, answered, written, given_up, clock>>
        BY <1>2 DEF vars, history
    <2>2. TypeOK'
        BY <2>1 DEF IInv, TypeOK
    <2>3. UniqueIds' /\ StampedBefore' /\ OwnRecipes' /\ Exact'
        BY <2>1 DEF IInv, UniqueIds, StampedBefore, OwnRecipes, Exact, Idle
    <2>4. Jobs'
        BY <2>1 DEF IInv, Jobs, HasRecipe, NotOnDisk, OnDisk, Idle
    <2> QED
        BY <2>2, <2>3, <2>4 DEF IInv
<1> QED
    BY <1>1, <1>2, AbortKeepsInvariant, ProposeKeepsInvariant, RestartKeepsInvariant DEF Next

LEMMA Invariant == Spec => []IInv
<1> QED
    BY InitInvariant, StepKeepsInvariant, PTL DEF Spec

-----------------------------------------------------------------------------
\* Every variable has its type, whatever the inputs and however many posts (the state of
\* create_recipe and of the store).
THEOREM TypeCorrect == Spec => []TypeOK
<1>1. IInv => TypeOK
    BY DEF IInv
<1> QED
    BY <1>1, Invariant, PTL

\* recipe_index never names a recipe that is not on disk, nor one of another name, revision
\* or digest than the key (save_recipe, rebuild_index).
THEOREM IndexIsExact == Spec => []LookupIsExact
<1>1. ASSUME IInv PROVE LookupIsExact
    <2> SUFFICES ASSUME NEW k \in Keys, index[k] # None
                 PROVE  /\ \E r \in disk : r.id = index[k]
                        /\ k \in KeysOf(get_recipe(index[k]).input)
        BY DEF LookupIsExact
    <2>1. PICK r \in disk : r.id = index[k] /\ k \in KeysOf(r.input)
        BY <1>1 DEF IInv, Exact
    <2>2. get_recipe(index[k]) = r
        BY <1>1, <2>1, GetRecipeFinds DEF IInv
    <2> QED
        BY <2>1, <2>2
<1> QED
    BY <1>1, Invariant, PTL

\* What get_recipe finds under an id of the index is a recipe that has the key.
LEMMA FoundHasKey ==
    ASSUME IInv, NEW k \in Keys, index[k] # None
    PROVE  /\ get_recipe(index[k]) \in disk
           /\ get_recipe(index[k]).id = index[k]
           /\ k \in KeysOf(get_recipe(index[k]).input)
<1>1. PICK r \in disk : r.id = index[k] /\ k \in KeysOf(r.input)
    BY DEF IInv, Exact
<1>2. get_recipe(index[k]) = r
    BY <1>1, GetRecipeFinds DEF IInv
<1> QED
    BY <1>1, <1>2

LEMMA NoneNotFound ==
    ASSUME IInv
    PROVE  get_recipe(None) = None
BY RecipeAssumption DEF IInv, TypeOK, Recipe, get_recipe

\* A key that names a recipe never stops naming one.
LEMMA KeysStay ==
    ASSUME IInv, [Next]_vars, NEW k \in Keys, index[k] # None
    PROVE  index'[k] # None
<1>1. ASSUME NEW c \in Creators, InsertIndex(c) PROVE index'[k] # None
    <2>1. job[c].recipe.id \in Nat
        BY <1>1 DEF InsertIndex, Step, IInv, TypeOK, Jobs, OnDisk, Recipe
    <2> QED
        BY <1>1, <2>1, RecipeAssumption DEF InsertIndex
<1>2. ASSUME Restart PROVE index'[k] # None
    <2>1. HavingKey(k) # {}
        BY DEF IInv, Exact, HavingKey
    <2>2. \E r \in HavingKey(k) : index'[k] = r.id
        BY <1>2, <2>1, RebuildFinds DEF Restart
    <2> QED
        BY <2>2, RecipeAssumption DEF HavingKey, IInv, TypeOK, Recipe
<1>3. CASE UNCHANGED index
    BY <1>3
<1> QED
    BY <1>1, <1>2, <1>3 DEF Next, Create, Propose, Enter, ReturnExisting, NotStoredYet,
       WriteRecipe, InsertBlob, Abort, vars

\* A key that names a recipe of the right name is found, before or after any other.
LEMMA KeyIsFound ==
    ASSUME IInv, NEW n, NEW reference, ~Contested(n, reference),
           IndexGet(Tag(n, reference)) # None \/ IndexGet(reference) # None
    PROVE  lookup_recipe(n, reference) # None
<1> DEFINE tag == Tag(n, reference)
           key == IF IndexGet(tag) # None THEN tag ELSE reference
<1>1. key \in Keys /\ index[key] # None /\ IndexGet(key) = index[key]
    BY DEF IndexGet
<1>2. /\ get_recipe(index[key]) \in disk
      /\ key \in KeysOf(get_recipe(index[key]).input)
    BY <1>1, FoundHasKey
<1>3. get_recipe(index[key]) \in HavingKey(tag) \cup HavingKey(reference)
    BY <1>2 DEF HavingKey
<1>4. get_recipe(index[key]).input.name = n
    BY <1>3 DEF Contested
<1>5. get_recipe(index[key]) # None
    BY <1>2, RecipeAssumption DEF IInv, TypeOK
<1>6. (IF IndexGet(tag) # None THEN IndexGet(tag) ELSE IndexGet(reference)) = index[key]
    BY <1>1
<1> QED
    BY <1>4, <1>5, <1>6 DEF lookup_recipe

IsKnown(n, reference) == IndexGet(Tag(n, reference)) # None \/ IndexGet(reference) # None

UncontestedFound ==
    \A n \in Names, reference \in References :
        IsKnown(n, reference) /\ ~Contested(n, reference) => lookup_recipe(n, reference) # None

LEMMA UncontestedIsFound == Spec => []UncontestedFound
<1>1. IInv => UncontestedFound
    BY KeyIsFound DEF UncontestedFound, IsKnown
<1> QED
    BY <1>1, Invariant, PTL

\* README.md:33, stable references: what resolves goes on resolving, across hang-ups, races
\* and restarts, unless a recipe of another name has a key that is spelled like the reference
\* (save_recipe, rebuild_index).
THEOREM StableReferences == Spec => StaysResolvable
<1>1. ASSUME IInv, UncontestedFound', [Next]_vars PROVE ResolvesStill
    <2> SUFFICES ASSUME NEW n \in Names, NEW reference \in References,
                        lookup_recipe(n, reference) # None, ~Contested(n, reference)'
                 PROVE  lookup_recipe(n, reference)' # None
        BY DEF ResolvesStill
    <2>1. IsKnown(n, reference)
        BY <1>1, NoneNotFound DEF lookup_recipe, IsKnown
    <2>2. ASSUME NEW k, IndexGet(k) # None PROVE IndexGet(k)' # None
        BY <1>1, <2>2, KeysStay DEF IndexGet
    <2>3. IsKnown(n, reference)'
        BY <2>1, <2>2 DEF IsKnown
    <2> QED
        BY <1>1, <2>3 DEF UncontestedFound
<1>2. IInv /\ UncontestedFound' /\ [Next]_vars => [ResolvesStill]_vars
    BY <1>1
<1> QED
    BY <1>2, Invariant, UncontestedIsFound, PTL DEF Spec, StaysResolvable

-----------------------------------------------------------------------------
(***************************************************************************)
(* What the answers rest on: recipe_lock admits one post at a time from    *)
(* the lookup to the entry in blob_index, so a digest that was looked up   *)
(* and not found is still unknown when its recipe is indexed.              *)
(***************************************************************************)
Inside(c) == job[c].pc \in {"lookup", "write", "index", "blob"}

Exclusive == \A c \in Creators : Inside(c) => lock = c

\* What a post inside the lock knows of the index, and of the order of the writes.
Posts ==
    \A c \in Creators :
        /\ job[c].pc \in {"write", "index"} => index[Digest(job[c].recipe.input)] = None
        /\ job[c].pc = "index" => /\ written # << >>
                                  /\ written[Len(written)] = job[c].recipe.id
        /\ job[c].pc = "blob" => \A k \in KeysOf(job[c].recipe.input) :
                                    index[k] = job[c].recipe.id

\* The recipe that its own digest resolves to.
Current(r) == index[Digest(r.input)] = r.id

\* An answer is on disk, and the digest of what was posted resolves to it, unless a tag of
\* another recipe is spelled like this digest.
CurrentAnswer(a) ==
    /\ a.recipe \in disk
    /\ ~Another(a.input, Digest(a.input)) =>
          /\ Digest(a.recipe.input) = Digest(a.input)
          /\ index[Digest(a.input)] = a.recipe.id

AnsweredCurrent == \A a \in answered : CurrentAnswer(a)

Configs ==
    /\ \A r \in disk : Current(r) =>
          \/ r.id \in blobs \/ r.id \in given_up
          \/ \E c \in Creators : job[c].pc = "blob" /\ job[c].recipe = r
    /\ \A id \in blobs :
          \E r \in disk : r.id = id /\ \A k \in KeysOf(r.input) : index[k] # None

AllWritten == \A r \in disk : \E i \in DOMAIN written : written[i] = r.id

\* A recipe that is in the index, or has been.
Indexed(r) == (\E k \in Keys : index[k] = r.id) \/ (\E a \in answered : a.recipe = r)

\* A key that has moved on from a recipe to an older one was written after it.
KeyOrder ==
    \A r \in disk : Indexed(r) =>
        \A k \in KeysOf(r.input) : /\ index[k] # None
                                   /\ r.id > index[k] => WrittenBefore(r.id, index[k])

AnswerInv == Exclusive /\ Posts /\ AnsweredCurrent /\ Configs /\ AllWritten /\ KeyOrder

LEMMA KeysKnown ==
    ASSUME NEW i \in Inputs
    PROVE  Digest(i) \in Keys /\ Tag(i.name, i.revision) \in Keys
BY DEF Keys, KeysOf

\* A step that changes neither files nor indexes, and moves one handler on to a later step.
LEMMA QuietStep ==
    ASSUME IInv, AnswerInv, NEW c \in Creators,
           UNCHANGED <<disk, index, blobs, written>>, given_up \subseteq given_up',
           \A d \in Creators : d # c => job'[d] = job[d],
           \A d \in Creators : Inside(d)' => lock' = d,
           \A a \in answered' :
               a \in answered \/ (CurrentAnswer(a) /\ \E k \in Keys : index[k] = a.recipe.id),
           \/ job'[c].pc \in {"idle", "proposed", "lookup"}
           \/ job'[c].pc = "write" /\ index[Digest(job'[c].recipe.input)] = None,
           job[c].pc = "blob" => job[c].recipe.id \in given_up'
    PROVE  AnswerInv'
<1>1. Exclusive'
    BY DEF Exclusive
<1>2. Posts'
    BY DEF AnswerInv, Posts
<1>3. AnsweredCurrent'
    BY DEF AnswerInv, AnsweredCurrent, CurrentAnswer, Another, HavingKey
<1>4. Configs'
    BY DEF AnswerInv, Configs, Current
<1>5. AllWritten' /\ KeyOrder'
    BY DEF AnswerInv, AllWritten, KeyOrder, Indexed, WrittenBefore
<1> QED
    BY <1>1, <1>2, <1>3, <1>4, <1>5 DEF AnswerInv

\* The recipe that is stored under the digest of a post is a fit answer.
LEMMA ExistingIsCurrent ==
    ASSUME IInv, NEW c \in Creators, job[c].recipe \in Recipe, Existing(c) # None
    PROVE  /\ CurrentAnswer([input |-> job[c].recipe.input, recipe |-> Existing(c)])
           /\ \E k \in Keys : index[k] = Existing(c).id
<1> DEFINE input == job[c].recipe.input
           key == Digest(input)
           found == get_recipe(index[key])
<1>1. key \in Keys
    BY KeysKnown DEF Recipe
<1>2. Existing(c) = found
    BY <1>1 DEF Existing, IndexGet
<1>3. index[key] # None
    BY <1>2, NoneNotFound
<1>4. found \in disk /\ found.id = index[key] /\ key \in KeysOf(found.input)
    BY <1>1, <1>3, FoundHasKey
<1>5. ~Another(input, key) => Digest(found.input) = key
    BY <1>4 DEF Another, HavingKey
<1> QED
    BY <1>1, <1>2, <1>4, <1>5 DEF CurrentAnswer

\* Recipes with one digest have one name.
LEMMA SameName ==
    ASSUME NEW i, NEW j, Digest(i) = Digest(j)
    PROVE  i.name = j.name
<1>1. Hex(i) = Hex(j)
    BY DEF Digest
<1> QED
    BY <1>1 DEF Hex

LEMMA ProposeAnswers ==
    ASSUME IInv, AnswerInv, NEW c \in Creators, NEW i \in Inputs, Propose(c, i)
    PROVE  AnswerInv'
<1>1. /\ job \in [Creators -> Job] /\ job[c].pc = "idle"
      /\ UNCHANGED <<disk, index, blobs, lock, answered, written, given_up>>
    BY DEF IInv, TypeOK, Propose, Step, history
<1>2. job'[c].pc = "proposed" /\ \A d \in Creators : d # c => job'[d] = job[d]
    BY <1>1 DEF Propose
<1>3. \A d \in Creators : Inside(d)' => lock' = d
    BY <1>1, <1>2 DEF AnswerInv, Exclusive, Inside
<1> QED
    BY <1>1, <1>2, <1>3, QuietStep

LEMMA EnterAnswers ==
    ASSUME IInv, AnswerInv, NEW c \in Creators, Enter(c)
    PROVE  AnswerInv'
<1>1. /\ job \in [Creators -> Job] /\ job[c].pc = "proposed" /\ lock = None /\ lock' = c
      /\ UNCHANGED <<disk, index, blobs, answered, written, given_up>>
    BY DEF IInv, TypeOK, Enter, Step, history
<1>2. job'[c].pc = "lookup" /\ \A d \in Creators : d # c => job'[d] = job[d]
    BY <1>1 DEF Enter, Goto, Job
<1>3. \A d \in Creators : Inside(d)' => lock' = d
    BY <1>1, <1>2, RecipeAssumption DEF AnswerInv, Exclusive, Inside
<1> QED
    BY <1>1, <1>2, <1>3, QuietStep

LEMMA ReturnExistingAnswers ==
    ASSUME IInv, AnswerInv, NEW c \in Creators, ReturnExisting(c)
    PROVE  AnswerInv'
<1>1. /\ job \in [Creators -> Job] /\ job[c].pc = "lookup" /\ lock' = None
      /\ answered' = answered \cup {[input |-> job[c].recipe.input, recipe |-> Existing(c)]}
      /\ Existing(c) # None
      /\ UNCHANGED <<disk, index, blobs, written, given_up>>
    BY DEF IInv, TypeOK, ReturnExisting, AnswerWith, Step, history
<1>2. job'[c] = IdleJob /\ \A d \in Creators : d # c => job'[d] = job[d]
    BY <1>1 DEF ReturnExisting, Finish
<1>3. \A d \in Creators : ~Inside(d)'
    BY <1>1, <1>2, RecipeAssumption DEF AnswerInv, Exclusive, Inside, IdleJob
<1>4. job[c].recipe \in Recipe
    BY <1>1 DEF IInv, Jobs, HasRecipe, Idle
<1>5. /\ CurrentAnswer([input |-> job[c].recipe.input, recipe |-> Existing(c)])
      /\ \E k \in Keys : index[k] = Existing(c).id
    BY <1>1, <1>4, ExistingIsCurrent
<1>6. job'[c].pc = "idle"
    BY <1>2 DEF IdleJob
<1> QED
    BY <1>1, <1>2, <1>3, <1>5, <1>6, QuietStep

LEMMA NotStoredYetAnswers ==
    ASSUME IInv, AnswerInv, NEW c \in Creators, NotStoredYet(c)
    PROVE  AnswerInv'
<1> DEFINE key == Digest(job[c].recipe.input)
<1>1. /\ job \in [Creators -> Job] /\ job[c].pc = "lookup" /\ Existing(c) = None
      /\ UNCHANGED <<disk, index, blobs, lock, answered, written, given_up>>
    BY DEF IInv, TypeOK, NotStoredYet, Step, history
<1>2. /\ job'[c].pc = "write" /\ job'[c].recipe = job[c].recipe
      /\ \A d \in Creators : d # c => job'[d] = job[d]
    BY <1>1 DEF NotStoredYet, Goto, Job
<1>3. \A d \in Creators : Inside(d)' => lock' = d
    BY <1>1, <1>2 DEF AnswerInv, Exclusive, Inside
<1>4. key \in Keys
    BY <1>1, KeysKnown DEF IInv, Jobs, HasRecipe, Idle, Recipe
<1>5. index[key] = None
    <2>1. get_recipe(index[key]) = None
        BY <1>1, <1>4 DEF Existing, IndexGet
    <2>2. None \notin disk
        BY <1>1, RecipeAssumption DEF IInv, TypeOK, Recipe
    <2> QED
        BY <1>4, <2>1, <2>2, FoundHasKey
<1> QED
    BY <1>1, <1>2, <1>3, <1>5, QuietStep

LEMMA AbortAnswers ==
    ASSUME IInv, AnswerInv, NEW c \in Creators, Abort(c)
    PROVE  AnswerInv'
<1>1. /\ job \in [Creators -> Job] /\ lock' = IF lock = c THEN None ELSE lock
      /\ given_up' = IF job[c].pc = "blob" THEN given_up \cup {job[c].recipe.id} ELSE given_up
      /\ UNCHANGED <<disk, index, blobs, answered, written>>
    BY DEF IInv, TypeOK, Abort, Step
<1>2. job'[c] = IdleJob /\ \A d \in Creators : d # c => job'[d] = job[d]
    BY <1>1 DEF Abort, Finish
<1>3. \A d \in Creators : Inside(d)' => lock' = d
    BY <1>1, <1>2 DEF AnswerInv, Exclusive, Inside, IdleJob
<1>4. job'[c].pc = "idle"
    BY <1>2 DEF IdleJob
<1>5. given_up \subseteq given_up' /\ (job[c].pc = "blob" => job[c].recipe.id \in given_up')
    BY <1>1
<1> QED
    BY <1>1, <1>2, <1>3, <1>4, <1>5, QuietStep

\* Nobody else is inside the lock.
LEMMA Alone ==
    ASSUME AnswerInv, NEW c \in Creators, NEW d \in Creators, Inside(c), d # c
    PROVE  ~Inside(d)
BY DEF AnswerInv, Exclusive

LEMMA WriteRecipeAnswers ==
    ASSUME IInv, AnswerInv, NEW c \in Creators, WriteRecipe(c)
    PROVE  AnswerInv'
<1> DEFINE new == job[c].recipe
<1>1. /\ job[c].pc = "write" /\ job \in [Creators -> Job] /\ written \in Seq(Nat)
      /\ disk' = disk \cup {new} /\ written' = Append(written, new.id)
      /\ UNCHANGED <<index, blobs, lock, answered, given_up, clock>>
    BY DEF IInv, TypeOK, WriteRecipe, Step
<1>2. /\ job'[c].pc = "index" /\ job'[c].recipe = new
      /\ \A d \in Creators : d # c => job'[d] = job[d]
    BY <1>1 DEF WriteRecipe, Goto, Job
<1>3. new \in Recipe /\ \A r \in disk : r.id # new.id
    BY <1>1 DEF IInv, Jobs, HasRecipe, NotOnDisk, Idle
<1>4. new.id \in Nat
    BY <1>3 DEF Recipe
<1>5. \A d \in Creators : d # c => ~Inside(d)
    BY <1>1, Alone DEF Inside
<1>6. index[Digest(new.input)] = None
    BY <1>1 DEF AnswerInv, Posts
<1>7. ~Current(new)
    BY <1>4, <1>6, RecipeAssumption DEF Current
<1>8. /\ DOMAIN written \subseteq DOMAIN written'
      /\ \A i \in DOMAIN written : written'[i] = written[i]
      /\ Len(written') \in DOMAIN written' /\ written'[Len(written')] = new.id
      /\ written' # << >>
    BY <1>1, <1>4
<1> HIDE DEF new
<1>9. Exclusive'
    BY <1>1, <1>2 DEF AnswerInv, Exclusive, Inside
<1>10. Posts'
    BY <1>1, <1>2, <1>5, <1>6, <1>8 DEF Posts, Inside
<1>11. AnsweredCurrent'
    BY <1>1 DEF AnswerInv, AnsweredCurrent, CurrentAnswer, Another, HavingKey
<1>12. Configs'
    <2>1. \A r \in disk' : Current(r)' => r \in disk /\ Current(r)
        BY <1>1, <1>7 DEF Current
    <2>2. \A d \in Creators : job[d].pc = "blob" => job'[d] = job[d]
        BY <1>1, <1>2
    <2>3. \A r \in disk' : Current(r)' =>
             \/ r.id \in blobs' \/ r.id \in given_up'
             \/ \E d \in Creators : job'[d].pc = "blob" /\ job'[d].recipe = r
        BY <1>1, <2>1, <2>2 DEF AnswerInv, Configs
    <2>4. \A id \in blobs' :
             \E r \in disk' : r.id = id /\ \A k \in KeysOf(r.input) : index'[k] # None
        BY <1>1 DEF AnswerInv, Configs
    <2> QED
        BY <2>3, <2>4 DEF Configs
<1>13. AllWritten'
    BY <1>1, <1>8 DEF AnswerInv, AllWritten
<1>14. KeyOrder'
    <2>1. ~Indexed(new)
        <3>1. \A k \in Keys : index[k] # new.id
            BY <1>3, <1>4, RecipeAssumption DEF IInv, Exact
        <3>2. \A a \in answered : a.recipe # new
            BY <1>3 DEF AnswerInv, AnsweredCurrent, CurrentAnswer
        <3> QED
            BY <3>1, <3>2 DEF Indexed
    <2>2. \A r \in disk' : Indexed(r)' => r \in disk /\ Indexed(r)
        BY <1>1, <2>1 DEF Indexed
    <2>3. \A q, r : WrittenBefore(q, r) => WrittenBefore(q, r)'
        BY <1>8 DEF WrittenBefore
    <2> QED
        BY <1>1, <2>2, <2>3 DEF AnswerInv, KeyOrder
<1> QED
    BY <1>9, <1>10, <1>11, <1>12, <1>13, <1>14 DEF AnswerInv

LEMMA InsertIndexAnswers ==
    ASSUME IInv, AnswerInv, NEW c \in Creators, InsertIndex(c)
    PROVE  AnswerInv'
<1> DEFINE new == job[c].recipe
<1>1. /\ job[c].pc = "index" /\ job \in [Creators -> Job] /\ written \in Seq(Nat)
      /\ index' = [k \in Keys |-> IF k \in KeysOf(new.input) THEN new.id ELSE index[k]]
      /\ UNCHANGED <<disk, blobs, lock, answered, written, given_up, clock>>
    BY DEF IInv, TypeOK, InsertIndex, Step, history
<1>2. /\ job'[c].pc = "blob" /\ job'[c].recipe = new
      /\ \A d \in Creators : d # c => job'[d] = job[d]
    BY <1>1 DEF InsertIndex, Goto, Job
<1>3. new \in disk /\ new.id \in Nat /\ new.input \in Inputs
    BY <1>1 DEF IInv, TypeOK, Jobs, OnDisk, Recipe
<1>4. \A d \in Creators : d # c => ~Inside(d)
    BY <1>1, Alone DEF Inside
<1>5. index[Digest(new.input)] = None /\ written # << >> /\ written[Len(written)] = new.id
    BY <1>1 DEF AnswerInv, Posts
<1>6. KeysOf(new.input) \subseteq Keys
    BY <1>3 DEF Keys
<1>7. \A r \in disk : /\ Digest(r.input) \in Keys /\ r.id \in Nat /\ r.input \in Inputs
                      /\ Tag(r.input.name, r.input.revision) \in Keys
    BY KeysKnown DEF IInv, TypeOK, Recipe
<1> HIDE DEF new
<1>10. \A r \in disk : Current(r)' => r = new \/ Current(r)
    <2> SUFFICES ASSUME NEW r \in disk, Current(r)', ~Current(r)
                 PROVE  r = new
        OBVIOUS
    <2>1. Digest(r.input) \in KeysOf(new.input)
        BY <1>1, <1>7 DEF Current
    <2>2. r.id = new.id
        BY <1>1, <1>7, <2>1 DEF Current
    <2> QED
        BY <1>3, <2>2 DEF IInv, UniqueIds
<1>11. Exclusive'
    BY <1>1, <1>2 DEF AnswerInv, Exclusive, Inside
<1>12. Posts'
    BY <1>1, <1>2, <1>4, <1>6 DEF Posts, Inside
<1>13. AnsweredCurrent'
    <2> SUFFICES ASSUME NEW a \in answered, ~Another(a.input, Digest(a.input))
                 PROVE  /\ Digest(a.recipe.input) = Digest(a.input)
                        /\ index'[Digest(a.input)] = a.recipe.id
        BY <1>1 DEF AnswerInv, AnsweredCurrent, CurrentAnswer, Another, HavingKey
    <2>1. /\ Digest(a.recipe.input) = Digest(a.input)
          /\ index[Digest(a.input)] = a.recipe.id
          /\ a.recipe.id # None /\ Digest(a.input) \in Keys
        BY KeysKnown, RecipeAssumption
           DEF AnswerInv, AnsweredCurrent, CurrentAnswer, IInv, TypeOK, Recipe
    <2>2. Digest(a.input) # Digest(new.input)
        BY <1>5, <2>1
    <2>3. Digest(a.input) \notin KeysOf(new.input)
        BY <1>3, <2>2 DEF Another, HavingKey
    <2> QED
        BY <1>1, <2>1, <2>3
<1>14. Configs'
    <2>1. \A r \in disk' : Current(r)' =>
             \/ r.id \in blobs' \/ r.id \in given_up'
             \/ \E d \in Creators : job'[d].pc = "blob" /\ job'[d].recipe = r
        <3> SUFFICES ASSUME NEW r \in disk, Current(r)'
                     PROVE  \/ r.id \in blobs \/ r.id \in given_up
                            \/ \E d \in Creators : job'[d].pc = "blob" /\ job'[d].recipe = r
            BY <1>1
        <3>1. CASE r = new
            BY <1>2, <3>1
        <3>2. CASE r # new
            <4>1. \/ r.id \in blobs \/ r.id \in given_up
                  \/ \E d \in Creators : job[d].pc = "blob" /\ job[d].recipe = r
                BY <1>10, <3>2 DEF AnswerInv, Configs
            <4>2. \A d \in Creators : job[d].pc # "blob"
                BY <1>1, <1>4 DEF Inside
            <4> QED
                BY <4>1, <4>2
        <3> QED
            BY <3>1, <3>2
    <2>2. \A id \in blobs' :
             \E r \in disk' : r.id = id /\ \A k \in KeysOf(r.input) : index'[k] # None
        <3> SUFFICES ASSUME NEW id \in blobs
                     PROVE  \E r \in disk : r.id = id /\ \A k \in KeysOf(r.input) : index'[k] # None
            BY <1>1
        <3>1. PICK r \in disk : r.id = id /\ \A k \in KeysOf(r.input) : index[k] # None
            BY DEF AnswerInv, Configs
        <3>2. KeysOf(r.input) \subseteq Keys
            BY <1>7 DEF KeysOf
        <3>3. \A k \in KeysOf(r.input) : index'[k] # None
            BY <1>1, <1>3, <3>1, <3>2, RecipeAssumption
        <3> QED
            BY <3>1, <3>3
    <2> QED
        BY <2>1, <2>2 DEF Configs
<1>15. AllWritten'
    BY <1>1 DEF AnswerInv, AllWritten
<1>16. KeyOrder'
    <2> SUFFICES ASSUME NEW r \in disk, Indexed(r)', NEW k \in KeysOf(r.input)
                 PROVE  /\ index'[k] # None
                        /\ r.id > index'[k] => WrittenBefore(r.id, index'[k])
        <3>1. \A q, s : WrittenBefore(q, s)' <=> WrittenBefore(q, s)
            BY <1>1 DEF WrittenBefore
        <3> QED
            BY <1>1, <3>1 DEF KeyOrder
    <2>1. k \in Keys /\ index'[k] = IF k \in KeysOf(new.input) THEN new.id ELSE index[k]
        BY <1>1, <1>7 DEF KeysOf
    <2>2. CASE r = new
        BY <1>3, <2>1, <2>2, RecipeAssumption
    <2>3. CASE r # new /\ k \in KeysOf(new.input)
        <3>1. PICK i \in DOMAIN written : written[i] = r.id
            BY DEF AnswerInv, AllWritten
        <3>2. r.id # new.id
            BY <1>3, <2>3 DEF IInv, UniqueIds
        <3>3. i < Len(written) /\ Len(written) \in DOMAIN written
            BY <1>1, <1>5, <3>1, <3>2
        <3>4. WrittenBefore(r.id, new.id)
            BY <1>5, <3>1, <3>3 DEF WrittenBefore
        <3> QED
            BY <1>3, <2>1, <2>3, <3>4, RecipeAssumption
    <2>4. CASE r # new /\ k \notin KeysOf(new.input)
        <3>1. r.id # new.id
            BY <1>3, <2>4 DEF IInv, UniqueIds
        <3>2. Indexed(r)
            BY <1>1, <3>1 DEF Indexed
        <3> QED
            BY <2>1, <2>4, <3>2 DEF AnswerInv, KeyOrder
    <2> QED
        BY <2>2, <2>3, <2>4
<1> QED
    BY <1>11, <1>12, <1>13, <1>14, <1>15, <1>16 DEF AnswerInv

LEMMA InsertBlobAnswers ==
    ASSUME IInv, AnswerInv, NEW c \in Creators, InsertBlob(c)
    PROVE  AnswerInv'
<1> DEFINE new == job[c].recipe
<1>1. /\ job[c].pc = "blob" /\ job \in [Creators -> Job] /\ lock' = None
      /\ blobs' = blobs \cup {new.id}
      /\ answered' = answered \cup {[input |-> new.input, recipe |-> new]}
      /\ UNCHANGED <<disk, index, written, given_up, clock>>
    BY DEF IInv, TypeOK, InsertBlob, AnswerWith, Step, history
<1>2. job'[c] = IdleJob /\ \A d \in Creators : d # c => job'[d] = job[d]
    BY <1>1 DEF InsertBlob, Finish
<1>3. new \in disk /\ new.id \in Nat
    BY <1>1 DEF IInv, TypeOK, Jobs, OnDisk, Recipe
<1>4. \A d \in Creators : ~Inside(d)'
    BY <1>1, <1>2, Alone DEF Inside, IdleJob
<1>5. \A k \in KeysOf(new.input) : index[k] = new.id
    BY <1>1 DEF AnswerInv, Posts
<1> HIDE DEF new
<1>6. Exclusive'
    BY <1>4 DEF Exclusive
<1>7. Posts'
    BY <1>4 DEF Posts, Inside
<1>8. AnsweredCurrent'
    <2>1. CurrentAnswer([input |-> new.input, recipe |-> new])
        BY <1>3, <1>5 DEF CurrentAnswer, KeysOf
    <2> QED
        BY <1>1, <2>1 DEF AnswerInv, AnsweredCurrent, CurrentAnswer, Another, HavingKey
<1>9. Configs'
    <2>1. \A d \in Creators : job[d].pc = "blob" => d = c
        BY <1>1, Alone DEF Inside
    <2>2. \A r \in disk' : Current(r)' => r.id \in blobs' \/ r.id \in given_up'
        BY <1>1, <2>1 DEF AnswerInv, Configs, Current, new
    <2>3. \A k \in KeysOf(new.input) : index[k] # None
        BY <1>3, <1>5, RecipeAssumption
    <2>4. \A id \in blobs' :
             \E r \in disk' : r.id = id /\ \A k \in KeysOf(r.input) : index'[k] # None
        BY <1>1, <1>3, <2>3 DEF AnswerInv, Configs
    <2> QED
        BY <2>2, <2>4 DEF Configs
<1>10. AllWritten' /\ KeyOrder'
    <2>1. Indexed(new)
        BY <1>3, <1>5, KeysKnown DEF IInv, TypeOK, Recipe, Indexed, KeysOf
    <2>2. \A r \in disk : Indexed(r)' => Indexed(r)
        BY <1>1, <2>1 DEF Indexed
    <2> QED
        BY <1>1, <2>2 DEF AnswerInv, AllWritten, KeyOrder, WrittenBefore
<1> QED
    BY <1>6, <1>7, <1>8, <1>9, <1>10 DEF AnswerInv

\* A restart makes the newest recipe of a key the one it names.
LEMMA RebuildFindsNewest ==
    ASSUME IInv, rebuild_index, NEW k \in Keys, NEW r \in HavingKey(k)
    PROVE  index'[k] \in Nat /\ r.id <= index'[k]
<1>1. index'[k] = Newest(HavingKey(k)).id
    BY DEF rebuild_index
<1>2. /\ HavingKey(k) \subseteq Recipe /\ clock \in Nat
      /\ \A s \in HavingKey(k) : s.id < clock
    BY DEF HavingKey, IInv, TypeOK, StampedBefore
<1>3. /\ Newest(HavingKey(k)) \in HavingKey(k)
      /\ \A s \in HavingKey(k) : s.id <= Newest(HavingKey(k)).id
    BY <1>2, NewestExists
<1> QED
    BY <1>1, <1>2, <1>3 DEF Recipe

LEMMA RestartAnswers ==
    ASSUME IInv, AnswerInv, Restart
    PROVE  AnswerInv'
<1>1. /\ rebuild_index /\ lock' = None
      /\ job' = [c \in Creators |-> IdleJob] /\ blobs' = {r.id : r \in disk}
      /\ answered' = {} /\ given_up' = {} /\ UNCHANGED <<disk, written, clock>>
    BY DEF Restart, rebuild_index
<1>2. \A c \in Creators : job'[c].pc = "idle"
    BY <1>1 DEF IdleJob
<1>3. Exclusive' /\ Posts' /\ AnsweredCurrent'
    BY <1>1, <1>2 DEF Exclusive, Posts, AnsweredCurrent, Inside
<1>4. ASSUME NEW r \in disk, NEW k \in KeysOf(r.input)
      PROVE  index'[k] \in Nat /\ r.id <= index'[k]
    <2>1. k \in Keys /\ r \in HavingKey(k)
        BY <1>4 DEF IInv, TypeOK, Recipe, Keys, HavingKey
    <2> QED
        BY <1>1, <2>1, RebuildFindsNewest
<1>5. Configs'
    <2>1. \A r \in disk : r.id \in blobs' /\ \A k \in KeysOf(r.input) : index'[k] # None
        BY <1>1, <1>4, RecipeAssumption
    <2> QED
        BY <1>1, <2>1 DEF Configs
<1>6. AllWritten'
    BY <1>1 DEF AnswerInv, AllWritten
<1>7. KeyOrder'
    <2> SUFFICES ASSUME NEW r \in disk, NEW k \in KeysOf(r.input)
                 PROVE  index'[k] \in Nat /\ r.id <= index'[k] /\ r.id \in Nat
        BY <1>1, RecipeAssumption DEF KeyOrder
    <2> QED
        BY <1>4 DEF IInv, TypeOK, Recipe
<1> QED
    BY <1>3, <1>5, <1>6, <1>7 DEF AnswerInv

LEMMA StepAnswers ==
    ASSUME IInv, AnswerInv, [Next]_vars
    PROVE  AnswerInv'
<1>1. ASSUME NEW c \in Creators, Create(c) PROVE AnswerInv'
    BY <1>1, EnterAnswers, ReturnExistingAnswers, NotStoredYetAnswers, WriteRecipeAnswers,
       InsertIndexAnswers, InsertBlobAnswers DEF Create
<1>2. ASSUME UNCHANGED vars PROVE AnswerInv'
    BY <1>2 DEF vars, history, AnswerInv, Exclusive, Posts, AnsweredCurrent, Configs, AllWritten,
       CurrentAnswer, Another, HavingKey, KeyOrder, Indexed, Current, WrittenBefore, Inside
<1> QED
    BY <1>1, <1>2, ProposeAnswers, AbortAnswers, RestartAnswers DEF Next

LEMMA AnswerInvariant == Spec => [](IInv /\ AnswerInv)
<1>1. Init => AnswerInv
    BY DEF Init, IdleJob, AnswerInv, Exclusive, Posts, AnsweredCurrent, Configs, AllWritten,
       KeyOrder, Inside
<1> QED
    BY <1>1, InitInvariant, StepKeepsInvariant, StepAnswers, PTL DEF Spec

\* A client that posted a recipe got one with its content, which its digest resolves to for all
\* that posted it, unless a tag is spelled like its digest, or like its name and its digest
\* (save_recipe, lookup_recipe).
THEOREM AnswersResolve == Spec => []AnsweredResolves
<1>1. ASSUME IInv, AnswerInv PROVE AnsweredResolves
    <2> SUFFICES ASSUME NEW a \in answered, ~Another(a.input, Digest(a.input))
                 PROVE  /\ Digest(a.recipe.input) = Digest(a.input)
                        /\ HavingKey(Tag(a.input.name, Digest(a.input))) = {} =>
                              lookup_recipe(a.input.name, Digest(a.input)) = a.recipe
        BY DEF AnsweredResolves
    <2> DEFINE key == Digest(a.input)
               tag == Tag(a.input.name, key)
    <2>1. /\ a.recipe \in disk /\ index[key] = a.recipe.id /\ key \in Keys
          /\ a.recipe.id \in Nat /\ Digest(a.recipe.input) = key
        BY <1>1, KeysKnown DEF AnswerInv, AnsweredCurrent, CurrentAnswer, IInv, TypeOK, Recipe
    <2>2. get_recipe(a.recipe.id) = a.recipe /\ a.recipe # None
        BY <1>1, <2>1, GetRecipeFinds, RecipeAssumption DEF IInv, TypeOK
    <2>3. a.recipe.input.name = a.input.name
        BY <2>1, SameName
    <2>4. ASSUME HavingKey(tag) = {} PROVE lookup_recipe(a.input.name, key) = a.recipe
        <3>1. IndexGet(tag) = None
            BY <1>1, <2>4 DEF IndexGet, IInv, Exact, HavingKey
        <3>2. IndexGet(key) = a.recipe.id
            BY <2>1 DEF IndexGet
        <3> QED
            BY <2>2, <2>3, <3>1, <3>2 DEF lookup_recipe
    <2> QED
        BY <2>1, <2>4
<1> QED
    BY <1>1, AnswerInvariant, PTL

\* The config of a recipe that resolves is known, but for the posts that ended between the
\* two indexes; and never without the recipe's references (blob_index).
THEOREM ConfigsAreKnown == Spec => []ConfigsKnown
<1>1. ASSUME IInv, AnswerInv PROVE ConfigsKnown
    <2>1. ASSUME NEW r \in disk, index[Digest(r.input)] = r.id
          PROVE  \/ lookup_blob_recipe(r.id) = r
                 \/ r.id \in given_up
                 \/ \E c \in Creators : Step(c, "blob") /\ job[c].recipe = r
        <3>1. get_recipe(r.id) = r
            BY <1>1, GetRecipeFinds DEF IInv
        <3> QED
            BY <1>1, <2>1, <3>1 DEF AnswerInv, Configs, Current, lookup_blob_recipe, Step
    <2>2. ASSUME NEW id \in blobs, NEW k \in KeysOf(get_recipe(id).input)
          PROVE  index[k] # None
        <3>1. PICK r \in disk : r.id = id /\ \A key \in KeysOf(r.input) : index[key] # None
            BY <1>1 DEF AnswerInv, Configs
        <3>2. get_recipe(id) = r
            BY <1>1, <3>1, GetRecipeFinds DEF IInv
        <3> QED
            BY <2>2, <3>1, <3>2
    <2> QED
        BY <2>1, <2>2 DEF ConfigsKnown
<1> QED
    BY <1>1, AnswerInvariant, PTL

\* A restart moves a reference only to a recipe that was stamped later and yet written
\* earlier, or to one that was stored and never answered (rebuild_index).
THEOREM RestartMoves == Spec => RestartMovesOnlyRaces
<1> DEFINE Moves == Restart => \A k \in Keys : index[k] # None /\ index'[k] # index[k] =>
                        /\ index[k] < index'[k]
                        /\ \/ WrittenBefore(index'[k], index[k])
                           \/ get_recipe(index'[k]) \notin {a.recipe : a \in answered}
<1>1. ASSUME IInv, AnswerInv, Restart, NEW k \in Keys, index[k] # None, index'[k] # index[k]
      PROVE  /\ index[k] < index'[k]
             /\ \/ WrittenBefore(index'[k], index[k])
                \/ get_recipe(index'[k]) \notin {a.recipe : a \in answered}
    <2>1. PICK old \in disk : old.id = index[k] /\ k \in KeysOf(old.input)
        BY <1>1 DEF IInv, Exact
    <2>2. old \in HavingKey(k) /\ rebuild_index
        BY <1>1, <2>1 DEF HavingKey, Restart
    <2>3. index'[k] \in Nat /\ old.id <= index'[k] /\ old.id \in Nat
        BY <1>1, <2>1, <2>2, RebuildFindsNewest DEF IInv, TypeOK, Recipe
    <2>4. index[k] < index'[k]
        BY <1>1, <2>1, <2>3
    <2>5. PICK new \in disk : new.id = index'[k] /\ k \in KeysOf(new.input)
        BY <1>1, <2>2, RebuildFinds DEF HavingKey
    <2>6. get_recipe(index'[k]) = new
        BY <1>1, <2>5, GetRecipeFinds DEF IInv
    <2>7. ASSUME new \in {a.recipe : a \in answered}
          PROVE  WrittenBefore(index'[k], index[k])
        <3>1. Indexed(new)
            BY <2>7 DEF Indexed
        <3>2. new.id > index[k]
            BY <2>1, <2>3, <2>4, <2>5
        <3> QED
            BY <1>1, <2>5, <3>1, <3>2 DEF AnswerInv, KeyOrder
    <2> QED
        BY <2>4, <2>6, <2>7
<1>2. ASSUME IInv, AnswerInv, [Next]_vars PROVE [Moves]_vars
    BY <1>1, <1>2
<1> QED
    BY <1>2, AnswerInvariant, PTL DEF Spec, RestartMovesOnlyRaces
=============================================================================
