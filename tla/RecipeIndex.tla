----------------------------- MODULE RecipeIndex -----------------------------
(***************************************************************************)
(* Storing recipes and resolving references to them (create_recipe in      *)
(* src/app.rs; save_recipe, lookup_recipe and rebuild_index in             *)
(* src/store.rs).  Every recipe is a JSON file; the index from tags and    *)
(* digests to recipe ids lives in memory and is rebuilt from the files     *)
(* when the registry starts, and so does the one from the digest of a      *)
(* recipe's own OCI config (without layers, naming the recipe by its id)   *)
(* to that id.                                                             *)
(*                                                                         *)
(* A recipe is numbered by its created_at stamp, which Recipe::new takes   *)
(* before the handler waits for recipe_lock; the number also stands for    *)
(* its random id.  The digest of a recipe covers its input except the      *)
(* checkout path; its hex digits are modelled by what they cover.          *)
(*                                                                         *)
(* The index is one map from texts to ids.  A text is the sequence of its  *)
(* parts between colons, so that format!("{}:{}") is a concatenation:      *)
(* names and revisions may have colons, and one key may be the digest of a *)
(* recipe and the tag of another.                                          *)
(***************************************************************************)
EXTENDS Naturals, Sequences

CONSTANTS
    None,
    Inputs,       \* recipe inputs: [name, revision, body, path], the first two texts
    Creators,     \* concurrent create_recipe requests
    MaxRecipes    \* bound: recipes proposed in a behaviour

Hex(i) == [name |-> i.name, revision |-> i.revision, body |-> i.body]
Digest(i) == <<"sha256", Hex(i)>>

Tag(name, revision) == name \o revision

\* A recipe is inserted under "name:revision" and under its digest.
KeysOf(i) == {Tag(i.name, i.revision), Digest(i)}
Keys == UNION {KeysOf(i) : i \in Inputs}

Recipe == [id: Nat, input: Inputs]

ASSUME RecipeAssumption ==
    /\ None \notin Nat
    /\ None \notin Creators
    /\ None \notin Recipe
    /\ MaxRecipes \in Nat

VARIABLES
    disk,       \* recipes/<id>.json
    index,      \* recipe_index: [Keys -> recipe id or None]
    blobs,      \* blob_index: the recipes whose config it knows
    lock,       \* holder of recipe_lock, or None
    job,        \* [Creators -> state of a create_recipe handler]
    answered,   \* posts answered since the registry started: [input, recipe]
    written,    \* ids in the order the files were written
    given_up,   \* recipes whose handler ended between the two indexes, since the start
    clock       \* next created_at stamp and id

history == <<written, given_up>>
vars == <<disk, index, blobs, lock, job, answered, history, clock>>

Job == [pc: {"idle", "proposed", "lookup", "write", "index", "blob"}, recipe: Recipe \cup {None}]
IdleJob == [pc |-> "idle", recipe |-> None]

TypeOK ==
    /\ disk \subseteq Recipe
    /\ index \in [Keys -> Nat \cup {None}]
    /\ lock \in Creators \cup {None}
    /\ job \in [Creators -> Job]
    /\ answered \subseteq [input: Inputs, recipe: Recipe]
    /\ blobs \subseteq Nat /\ given_up \subseteq Nat
    /\ written \in Seq(Nat)
    /\ clock \in Nat

Init ==
    /\ disk = {} /\ answered = {} /\ blobs = {}
    /\ written = << >> /\ given_up = {}
    /\ index = [k \in Keys |-> None]
    /\ lock = None
    /\ job = [c \in Creators |-> IdleJob]
    /\ clock = 1

-----------------------------------------------------------------------------
get_recipe(id) ==
    IF \E r \in disk : r.id = id THEN CHOOSE r \in disk : r.id = id ELSE None

IndexGet(key) == IF key \in Keys THEN index[key] ELSE None

\* A reference is tried as a revision of the name first, then as a digest; what is found
\* must be of that name.
lookup_recipe(name, reference) ==
    LET tagged == IndexGet(Tag(name, reference))
        found == get_recipe(IF tagged # None THEN tagged ELSE IndexGet(reference))
    IN  IF found # None /\ found.input.name = name THEN found ELSE None

\* The config of a recipe, by its digest: oci_blob_response reads the recipe again.
lookup_blob_recipe(id) == IF id \in blobs THEN get_recipe(id) ELSE None

-----------------------------------------------------------------------------
Step(c, from) == job[c].pc = from
Goto(c, to) == job' = [job EXCEPT ![c].pc = to]
Finish(c) == job' = [job EXCEPT ![c] = IdleJob]

\* Recipe::new, before the lock.
Propose(c, i) ==
    /\ Step(c, "idle")
    /\ clock <= MaxRecipes
    /\ job' = [job EXCEPT ![c] = [pc |-> "proposed", recipe |-> [id |-> clock, input |-> i]]]
    /\ clock' = clock + 1
    /\ UNCHANGED <<disk, index, blobs, lock, answered, history>>

\* Mutant: save_recipe does not take recipe_lock.
EnterUnlocked(c) ==
    /\ Step(c, "proposed")
    /\ Goto(c, "lookup")
    /\ UNCHANGED <<disk, index, blobs, lock, answered, history, clock>>

\* save_recipe waits for recipe_lock.
Enter(c) ==
    /\ Step(c, "proposed")
    /\ lock = None
    /\ lock' = c
    /\ Goto(c, "lookup")
    /\ UNCHANGED <<disk, index, blobs, answered, history, clock>>

Existing(c) == get_recipe(IndexGet(Digest(job[c].recipe.input)))

\* Tells the client that the recipe it has posted is this one.
AnswerWith(c, recipe) ==
    answered' = answered \cup {[input |-> job[c].recipe.input, recipe |-> recipe]}

\* A recipe is stored under this digest already: it is returned instead of the new one.
ReturnExisting(c) ==
    /\ Step(c, "lookup")
    /\ Existing(c) # None
    /\ AnswerWith(c, Existing(c))
    /\ lock' = None
    /\ Finish(c)
    /\ UNCHANGED <<disk, index, blobs, history, clock>>

NotStoredYet(c) ==
    /\ Step(c, "lookup")
    /\ Existing(c) = None
    /\ Goto(c, "write")
    /\ UNCHANGED <<disk, index, blobs, lock, answered, history, clock>>

\* Mutant: an error of write_json is dropped.
WriteRecipeIgnored(c) ==
    /\ Step(c, "write")
    /\ disk' \in {disk, disk \cup {job[c].recipe}}
    /\ written' = Append(written, job[c].recipe.id)
    /\ Goto(c, "index")
    /\ UNCHANGED <<index, blobs, lock, answered, given_up, clock>>

WriteRecipe(c) ==
    /\ Step(c, "write")
    /\ disk' = disk \cup {job[c].recipe}
    /\ written' = Append(written, job[c].recipe.id)
    /\ Goto(c, "index")
    /\ UNCHANGED <<index, blobs, lock, answered, given_up, clock>>

\* Tag and digest are inserted under one hold of the index mutex ...
InsertIndex(c) ==
    /\ Step(c, "index")
    /\ index' = [k \in Keys |-> IF k \in KeysOf(job[c].recipe.input)
                                THEN job[c].recipe.id ELSE index[k]]
    /\ Goto(c, "blob")
    /\ UNCHANGED <<disk, blobs, lock, answered, history, clock>>

\* ... which is kept until the mutex of blob_index was free as well; the answer follows.
InsertBlob(c) ==
    /\ Step(c, "blob")
    /\ blobs' = blobs \cup {job[c].recipe.id}
    /\ AnswerWith(c, job[c].recipe)
    /\ lock' = None
    /\ Finish(c)
    /\ UNCHANGED <<disk, index, history, clock>>

\* Mutant: the mutex outlives the handler.
AbortKeepsLock(c) ==
    /\ ~Step(c, "idle")
    /\ Finish(c)
    /\ UNCHANGED <<disk, index, blobs, lock, answered, history, clock>>

\* The client hangs up or a write fails: the locks are released, a file that is written and
\* an entry that is made stay.
Abort(c) ==
    /\ ~Step(c, "idle")
    /\ lock' = IF lock = c THEN None ELSE lock
    /\ given_up' = IF Step(c, "blob") THEN given_up \cup {job[c].recipe.id} ELSE given_up
    /\ Finish(c)
    /\ UNCHANGED <<disk, index, blobs, answered, written, clock>>

Newest(recipes) == CHOOSE r \in recipes : \A s \in recipes : s.id <= r.id

HavingKey(k) == {r \in disk : k \in KeysOf(r.input)}

\* Mutant: only the digests are indexed again.
rebuild_index_digests ==
    /\ index' = [k \in Keys |-> LET known == {r \in disk : k = Digest(r.input)}
                                IN  IF known = {} THEN None ELSE Newest(known).id]
    /\ blobs' = {r.id : r \in disk}

\* Mutant: the recipes are inserted in the order in which the directory lists them.
rebuild_index_unsorted ==
    /\ \E first \in disk \cup {None} :
          index' = [k \in Keys |-> IF HavingKey(k) = {} THEN None
                                   ELSE IF first \in HavingKey(k) THEN first.id
                                   ELSE Newest(HavingKey(k)).id]
    /\ blobs' = {r.id : r \in disk}

\* Mutant: blob_index is left to the posts.
rebuild_index_without_blobs ==
    /\ index' = [k \in Keys |-> IF HavingKey(k) = {} THEN None ELSE Newest(HavingKey(k)).id]
    /\ blobs' = {}

\* The recipes are inserted in the order of created_at: the newest with a key wins.
rebuild_index ==
    /\ index' = [k \in Keys |-> IF HavingKey(k) = {} THEN None ELSE Newest(HavingKey(k)).id]
    /\ blobs' = {r.id : r \in disk}

Restart ==
    /\ rebuild_index
    /\ lock' = None
    /\ job' = [c \in Creators |-> IdleJob]
    /\ answered' = {} /\ given_up' = {}
    /\ UNCHANGED <<disk, written, clock>>

-----------------------------------------------------------------------------
Create(c) ==
    Enter(c) \/ ReturnExisting(c) \/ NotStoredYet(c) \/ WriteRecipe(c) \/ InsertIndex(c)
        \/ InsertBlob(c)

Next ==
    \/ \E c \in Creators : Create(c) \/ Abort(c) \/ \E i \in Inputs : Propose(c, i)
    \/ Restart

Spec == Init /\ [][Next]_vars

\* Handlers are polled; recipe_lock is a first come, first served tokio mutex.
Fairness == \A c \in Creators : WF_vars(Create(c)) /\ SF_vars(Enter(c))

FairSpec == Spec /\ Fairness

-----------------------------------------------------------------------------
\* The index never names a recipe that is not on disk, or one that has not the key, be it as
\* its tag or as its digest (save_recipe, rebuild_index).
LookupIsExact ==
    \A k \in Keys : index[k] # None =>
        /\ \E r \in disk : r.id = index[k]
        /\ k \in KeysOf(get_recipe(index[k]).input)

\* Some recipe with the key is not the one of this input.
Another(i, k) == \E r \in HavingKey(k) : Digest(r.input) # Digest(i)

\* Whatever races, hang-ups and orphaned files there were, a client that posted a recipe got
\* one with just this content, and all that posted it got the same one, which its digest
\* resolves to from then on (save_recipe).  Neither holds if a recipe was posted whose tag is
\* spelled like the digest; nor the second, if one was whose tag is spelled like the name and
\* the digest, since a reference is tried as a revision first.
AnsweredResolves ==
    \A a \in answered :
        LET digest == Digest(a.input)
        IN  ~Another(a.input, digest) =>
                /\ Digest(a.recipe.input) = digest
                /\ HavingKey(Tag(a.input.name, digest)) = {} =>
                      lookup_recipe(a.input.name, digest) = a.recipe

Names == {i.name : i \in Inputs}
References == {i.revision : i \in Inputs} \cup {Digest(i) : i \in Inputs}

\* A recipe of another name has a key that is spelled like the reference.
Contested(name, reference) ==
    \E r \in HavingKey(Tag(name, reference)) \cup HavingKey(reference) : r.input.name # name

ResolvesStill ==
    \A name \in Names, reference \in References :
        lookup_recipe(name, reference) # None /\ ~Contested(name, reference)' =>
            lookup_recipe(name, reference)' # None

\* A reference that resolves goes on resolving, across races, hang-ups and restarts
\* (save_recipe, rebuild_index), unless a recipe of another name comes to have a key that is
\* spelled like it: the one found in its place is then not of the name that is asked for.
StaysResolvable == [][ResolvesStill]_vars

\* A recipe that its digest resolves to can be asked for its config, unless the request that
\* stored it is about to make the entry or ended before: posting it again does not help then,
\* a restart does.  The config of a recipe is never known without its tag and digest.
ConfigsKnown ==
    /\ \A r \in disk : index[Digest(r.input)] = r.id =>
          \/ lookup_blob_recipe(r.id) = r
          \/ r.id \in given_up
          \/ \E c \in Creators : Step(c, "blob") /\ job[c].recipe = r
    /\ \A id \in blobs : \A k \in KeysOf(get_recipe(id).input) : index[k] # None

WrittenBefore(q, r) == \E i, j \in DOMAIN written : i < j /\ written[i] = q /\ written[j] = r

\* README.md:33 wants stable references.  The index goes by recipe_lock, a restart by
\* created_at, so a restart may move a reference; but only from a recipe to one that was
\* stamped later and yet written earlier, which means that the two were posted at the same
\* time, or to one that was stored but never answered.
RestartMovesOnlyRaces ==
    [][Restart => \A k \in Keys : index[k] # None /\ index'[k] # index[k] =>
          /\ index[k] < index'[k]
          /\ \/ WrittenBefore(index'[k], index[k])
             \/ get_recipe(index'[k]) \notin {a.recipe : a \in answered}]_vars

\* Every posted recipe is answered (or its client is gone): the lock cannot be lost.
CreatesAnswered == \A c \in Creators : job[c].pc # "idle" ~> job[c].pc = "idle"
=============================================================================
