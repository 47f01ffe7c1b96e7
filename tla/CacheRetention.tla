--------------------------- MODULE CacheRetention ---------------------------
(***************************************************************************)
(* How long cached bytes live: what read_artifact_ref promises (expires_at *)
(* of the record, from cache_ttl_seconds) and what the hourly sweep_cache  *)
(* does to the files (src/main.rs, src/store.rs).  The sweep knows nothing *)
(* but the recipes' TTLs, the digests their build records name, and the    *)
(* modification time of each file.                                         *)
(*                                                                         *)
(* Time passes in units of 900 s.  Instead of instants the module keeps    *)
(* the age of each file and the time left to each promise, both capped, so *)
(* that behaviours are unbounded.                                          *)
(***************************************************************************)
EXTENDS Naturals, FiniteSets

CONSTANTS
    None,
    Recipes,
    Digests,     \* layer digests, which name files of the cache directory
    Imports,     \* concurrent imports; each one names its private .ingest-<uuid> file
    Ttl,         \* [Recipes -> cache_ttl_seconds], 0 for no expiry
    Fallback,    \* TTL of a file no record names: 900 s
    Period       \* time between two sweeps: 3600 s

Files == Digests \cup Imports

MaxTtl == CHOOSE t \in {Ttl[r] : r \in Recipes} \cup {Fallback} :
             \A u \in {Ttl[r] : r \in Recipes} \cup {Fallback} : u <= t

\* Cap of every age: beyond it a file is older than any TTL.
MaxAge == MaxTtl + 1

ASSUME RetentionAssumption ==
    /\ Ttl \in [Recipes -> Nat] /\ Fallback \in Nat \ {0} /\ Period \in Nat \ {0}
    /\ IsFiniteSet(Recipes)
    /\ None \notin Nat
    /\ Digests \cap Imports = {}

VARIABLES
    age,       \* [Files -> time since the modification of the file, None when absent]
    recorded,  \* <<recipe, digest>>: some build record of the recipe names the digest
    promise,   \* [Recipes -> retained artifact of its latest record while it may be served, or None]
    job,       \* [Imports -> state of an import]
    sweep,     \* the running sweep: what it has read and which files it has still to look at
    since      \* time since the last sweep began

vars == <<age, recorded, promise, job, sweep, since>>

Idle == [pc |-> "idle", recipe |-> None, digest |-> None, left |-> 0, old |-> FALSE]

NoSweep == [known |-> {}, todo |-> {}]

Init ==
    /\ age = [f \in Files |-> None]
    /\ recorded = {}
    /\ promise = [r \in Recipes |-> None]
    /\ job = [i \in Imports |-> Idle]
    /\ sweep = NoSweep
    /\ since = Period   \* the first tick of the interval comes at once

-----------------------------------------------------------------------------
(***************************************************************************)
(* Imports of retained layers.                                             *)
(***************************************************************************)
Step(i, from) == job[i].pc = from
Finish(i) == job' = [job EXCEPT ![i] = Idle]

\* The declared layer is copied to a private file.
Copy(i, r, d) ==
    /\ Step(i, "idle")
    /\ age[i] = None
    /\ age' = [age EXCEPT ![i] = 0]
    /\ job' = [job EXCEPT ![i] = [pc |-> "copied", recipe |-> r, digest |-> d,
                                  left |-> 0, old |-> FALSE]]
    /\ UNCHANGED <<recorded, promise, sweep, since>>

\* The copy is too large or no valid layer, or the file of its digest cannot be linked or
\* adopted: it is unlinked, and the import ends without a record that names the digest.
Reject(i) ==
    /\ Step(i, "copied")
    /\ age' = [age EXCEPT ![i] = None]
    /\ Finish(i)
    /\ UNCHANGED <<recorded, promise, sweep, since>>

\* The recipe may still serve its retained layer.
Promised(r, d) == promise[r] # None /\ promise[r].digest = d

\* It is linked to its digest and unlinked; a file of that digest that is there already is
\* kept with its own age.  The expiry is computed now.  Where a file of the digest had been
\* swept, one of some age comes back under the promises made for it.
Link(i) ==
    /\ Step(i, "copied")
    /\ age[i] # None
    /\ LET d == job[i].digest
           linked == IF age[d] = None THEN age[i] ELSE age[d]
           back == age[d] = None /\ linked > 0
           others == [j \in Imports |-> [job[j] EXCEPT !.old = @ \/ (back /\ job[j].digest = d)]]
       IN  /\ age' = [age EXCEPT ![d] = linked, ![i] = None]
           /\ job' = [others EXCEPT ![i] = [job[i] EXCEPT !.pc = "linked",
                                                          !.left = Ttl[job[i].recipe],
                                                          !.old = linked > 0]]
           /\ promise' = [r \in Recipes |->
                 IF back /\ Promised(r, d) THEN [promise[r] EXCEPT !.old = TRUE] ELSE promise[r]]
    /\ UNCHANGED <<recorded, sweep, since>>

\* After the inspection of the file the record is saved.
Save(i) ==
    /\ Step(i, "linked")
    /\ age[job[i].digest] # None
    /\ recorded' = recorded \cup {<<job[i].recipe, job[i].digest>>}
    /\ promise' = [promise EXCEPT ![job[i].recipe] =
          IF Ttl[job[i].recipe] > 0 /\ job[i].left = 0 THEN None
          ELSE [digest |-> job[i].digest, left |-> job[i].left, old |-> job[i].old]]
    /\ Finish(i)
    /\ UNCHANGED <<age, sweep, since>>

\* The request fails, or its client hangs up: files stay as they are.
Abort(i) ==
    /\ ~Step(i, "idle")
    /\ Finish(i)
    /\ UNCHANGED <<age, recorded, promise, sweep, since>>

\* An import that retains nothing: its record names the digest all the same.
SaveUnretained(r, d) ==
    /\ recorded' = recorded \cup {<<r, d>>}
    /\ promise' = [promise EXCEPT ![r] = None]
    /\ UNCHANGED <<age, job, sweep, since>>

-----------------------------------------------------------------------------
(***************************************************************************)
(* The sweep.                                                              *)
(***************************************************************************)
Present == {f \in Files : age[f] # None}

\* It reads the recipes and their records, then lists the cache directory.
StartSweep ==
    /\ since >= Period
    /\ sweep.todo = {}
    /\ since' = 0
    /\ sweep' = [known |-> recorded, todo |-> Present]
    /\ UNCHANGED <<age, recorded, promise, job>>

Knowing(f) == {r \in Recipes : <<r, f>> \in sweep.known}

\* Mutant: the first TTL found is kept, whatever the other recipes ask for.
sweep_ttl_shortest(f) ==
    IF Knowing(f) = {} THEN Fallback
    ELSE CHOOSE t \in {Ttl[r] : r \in Knowing(f)} : \A r \in Knowing(f) : Ttl[r] >= t

\* The longest TTL among the recipes that know the digest.
sweep_ttl(f) ==
    IF Knowing(f) = {} THEN Fallback
    ELSE CHOOSE t \in {Ttl[r] : r \in Knowing(f)} : \A r \in Knowing(f) : Ttl[r] <= t

\* Mutant: a file no record names is kept.
IsOverdueIfKnown(f) ==
    age[f] # None /\ Knowing(f) # {} /\ sweep_ttl(f) # 0 /\ age[f] > sweep_ttl(f)

\* A TTL of 0 keeps the file for ever.
IsOverdue(f) == age[f] # None /\ sweep_ttl(f) # 0 /\ age[f] > sweep_ttl(f)

SweepFile(f) ==
    /\ f \in sweep.todo
    /\ sweep' = [sweep EXCEPT !.todo = @ \ {f}]
    /\ age' = [age EXCEPT ![f] = IF IsOverdue(f) THEN None ELSE @]
    /\ UNCHANGED <<recorded, promise, job, since>>

\* A file cannot be removed, for instance because it has just gone: the sweep ends here.
SweepFails(f) ==
    /\ f \in sweep.todo
    /\ IsOverdue(f)
    /\ sweep' = NoSweep
    /\ UNCHANGED <<age, recorded, promise, job, since>>

Older(n) == IF n = None \/ n = MaxAge THEN n ELSE n + 1
Less(n) == IF n = 0 THEN 0 ELSE n - 1

\* 900 s pass, which no sweep takes.
Tick ==
    /\ sweep.todo = {}
    /\ age' = [f \in Files |-> Older(age[f])]
    /\ promise' = [r \in Recipes |->
          IF promise[r] = None \/ promise[r].left = 1 THEN None
          ELSE [promise[r] EXCEPT !.left = Less(@)]]
    /\ job' = [i \in Imports |-> [job[i] EXCEPT !.left = Less(@)]]
    /\ since' = IF since < Period THEN since + 1 ELSE since
    /\ UNCHANGED <<recorded, sweep>>

-----------------------------------------------------------------------------
Next ==
    \/ \E i \in Imports : \/ Reject(i) \/ Link(i) \/ Save(i) \/ Abort(i)
                          \/ \E r \in Recipes, d \in Digests : Copy(i, r, d)
    \/ \E r \in Recipes, d \in Digests : SaveUnretained(r, d)
    \/ StartSweep
    \/ \E f \in Files : SweepFile(f) \/ SweepFails(f)
    \/ Tick

Spec == Init /\ [][Next]_vars

\* Time passes, the interval fires, and a file the sweeps come across over and over is
\* looked at in the end: removals do not fail every time.
Fairness == WF_vars(Tick) /\ SF_vars(StartSweep) /\ \A f \in Files : SF_vars(SweepFile(f))

FairSpec == Spec /\ Fairness

-----------------------------------------------------------------------------
Removed(d) == age[d] # None /\ age'[d] = None

\* A layer is swept while a recipe may still serve it in three situations only: the file was
\* older than the promise (adopted, long under validation, or brought back by another import
\* after a sweep), the sweep had read the records before this one was saved, or the recipe
\* keeps layers for ever and shares it with one that does not.
EvictionsExplained ==
    [][\A d \in Digests, r \in Recipes :
          Removed(d) /\ Promised(r, d) =>
             \/ promise[r].old
             \/ <<r, d>> \notin sweep.known
             \/ Ttl[r] = 0 /\ \E s \in Recipes : Ttl[s] > 0 /\ <<s, d>> \in sweep.known]_vars

\* Bytes are disposable (README.md:51): a file of the cache directory, also one that a
\* hang-up left behind, goes away unless a recipe that keeps layers for ever names it.
BytesAreDisposable ==
    \A f \in Files :
        age[f] # None
        ~> \/ age[f] = None
           \/ \E r \in Recipes : Ttl[r] = 0 /\ <<r, f>> \in recorded
=============================================================================
