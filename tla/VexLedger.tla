------------------------------ MODULE VexLedger ------------------------------
(***************************************************************************)
(* Administrative VEX statements of one recipe: POST .../vex (add_vex in   *)
(* src/app.rs, save_vex_statement in src/store.rs), what the gate makes of *)
(* them as time passes and layers are rebuilt, and what GET .../vex        *)
(* publishes (combined_vex_statements in src/metadata.rs).                 *)
(*                                                                         *)
(* The statements of a recipe are one file, rewritten as a whole under     *)
(* vex_lock, always through the same temporary name.  tokio::fs hands each *)
(* write and rename to a thread of the blocking pool: when the future of a *)
(* handler is dropped the lock is released, but an operation already       *)
(* handed over is still carried out.                                       *)
(***************************************************************************)
EXTENDS MetadataDocuments, FiniteSets

CONSTANTS
    Recipe,        \* the recipe record of MetadataGate
    Layers,        \* digests of retained layers
    Assessed,      \* [Layers -> autonomous assessments of the bound layer scan]
    Inputs,        \* what clients post
    Posters,       \* concurrent add_vex requests
    MaxPosts,      \* bound: statements posted in a behaviour
    MaxTime        \* bound: last instant looked at

\* The body of a POST; the handler gives the statement its id.
Given(field) == {i[field] : i \in Inputs}
VexInput ==
    [id : {0}, recipe_digest : Given("recipe_digest"), vulnerability : Given("vulnerability"),
     status : {"not_affected", "affected", "fixed", "under_investigation"},
     product : Given("product"), component : Given("component"), evidenced : BOOLEAN,
     expires_at : Nat \cup {None}]

ASSUME VexAssumption ==
    /\ None \notin Posters /\ MaxPosts \in Nat /\ MaxTime \in Nat
    /\ Inputs \subseteq VexInput

VARIABLES
    file,       \* vex/<recipe>.json
    tmp,        \* vex/<recipe>.json.tmp, None when absent
    lock,       \* holder of vex_lock, or None
    job,        \* [Posters -> state of an add_vex handler]
    strays,     \* operations of abandoned handlers, still with the blocking pool
    acked,      \* statements answered with 201
    disturbed,  \* some handler was abandoned inside a file operation
    layer,      \* layer of the latest build record, None without one
    posts, now

vars == <<file, tmp, lock, job, strays, acked, disturbed, layer, posts, now>>

Statement == UNION {{[i EXCEPT !.id = n] : n \in 1..MaxPosts} : i \in Inputs}

Job == [pc: {"idle", "wait", "write", "rename"}, statement: Statement \cup {None},
        list: Seq(Statement)]
IdleJob == [pc |-> "idle", statement |-> None, list |-> << >>]

Init ==
    /\ file = << >> /\ tmp = None
    /\ lock = None
    /\ job = [c \in Posters |-> IdleJob]
    /\ strays = {} /\ acked = {} /\ disturbed = FALSE
    /\ layer \in Layers \cup {None}
    /\ posts = 0 /\ now = 1

-----------------------------------------------------------------------------
(***************************************************************************)
(* The gate's and the publisher's view.                                    *)
(***************************************************************************)

\* The latest evidence: an import of the layer that went well ...
Build == IF layer = None THEN None
         ELSE [recipe_digest |-> Recipe.digest, status |-> "succeeded", timestamped |-> TRUE,
               source_scan_id |-> 0, source_scan_digest |-> 0, artifact |-> [digest |-> layer]]

\* ... and the inspection bound to it, which has no findings beside the assessments.
LayerScan == IF layer = None THEN None
             ELSE [recipe_digest |-> Recipe.digest, layers |-> {layer}, findings |-> {},
                   assessments |-> Assessed[layer]]

Verdict == evaluate_gate(Recipe, Build, LayerScan, file, now)

\* What GET .../vex publishes at the same time.
PublishedStatements == combined_vex_statements(Recipe, LayerScan, file, now)

-----------------------------------------------------------------------------
(***************************************************************************)
(* add_vex.                                                                *)
(***************************************************************************)
Step(c, from) == job[c].pc = from
Finish(c) == job' = [job EXCEPT ![c] = IdleJob]
Release(c) == lock' = IF lock = c THEN None ELSE lock

\* All checks of add_vex are made here, before the handler waits for vex_lock.
Post(c, i) ==
    /\ Step(c, "idle")
    /\ posts < MaxPosts
    /\ AcceptsVex(Recipe, Build, i, now)
    /\ posts' = posts + 1
    /\ job' = [job EXCEPT ![c] = [IdleJob EXCEPT !.pc = "wait",
                                                 !.statement = [i EXCEPT !.id = posts']]]
    /\ UNCHANGED <<file, tmp, lock, strays, acked, disturbed, layer, now>>

ReadInto(c) == [job EXCEPT ![c].pc = "write", ![c].list = Append(file, job[c].statement)]

\* Mutant: the list is read without the lock.
EnterUnlocked(c) ==
    /\ Step(c, "wait")
    /\ job' = ReadInto(c)
    /\ UNCHANGED <<file, tmp, lock, strays, acked, disturbed, layer, posts, now>>

\* save_vex_statement gets vex_lock and reads the statements stored so far.
Enter(c) ==
    /\ Step(c, "wait")
    /\ lock = None
    /\ lock' = c
    /\ job' = ReadInto(c)
    /\ UNCHANGED <<file, tmp, strays, acked, disturbed, layer, posts, now>>

\* write_json: the new list is written to the temporary name ...
WriteTmp(c) ==
    /\ Step(c, "write")
    /\ tmp' = job[c].list
    /\ job' = [job EXCEPT ![c].pc = "rename"]
    /\ UNCHANGED <<file, lock, strays, acked, disturbed, layer, posts, now>>

\* ... which is renamed over the file; if it is gone, the request fails.
RenameTmp(c) ==
    /\ Step(c, "rename")
    /\ IF tmp = None THEN UNCHANGED <<file, acked>>
       ELSE file' = tmp /\ acked' = acked \cup {job[c].statement}
    /\ tmp' = None
    /\ Release(c)
    /\ Finish(c)
    /\ UNCHANGED <<strays, disturbed, layer, posts, now>>

InFileOperation(c) == job[c].pc \in {"write", "rename"}

\* The client hangs up while the handler waits for the lock or between two file operations.
Abort(c) ==
    /\ ~Step(c, "idle")
    /\ Release(c)
    /\ Finish(c)
    /\ UNCHANGED <<file, tmp, strays, acked, disturbed, layer, posts, now>>

\* The client hangs up while a file operation of its handler is with the blocking pool.
Abandon(c) ==
    /\ InFileOperation(c)
    /\ strays' = strays \cup {[op |-> job[c].pc, list |-> job[c].list]}
    /\ disturbed' = TRUE
    /\ Release(c)
    /\ Finish(c)
    /\ UNCHANGED <<file, tmp, acked, layer, posts, now>>

\* The blocking pool carries out what an abandoned handler had handed over.
CarryOut(o) ==
    /\ o \in strays
    /\ strays' = strays \ {o}
    /\ IF o.op = "write" THEN tmp' = o.list /\ UNCHANGED file
       ELSE /\ file' = IF tmp = None THEN file ELSE tmp
            /\ tmp' = None
    /\ UNCHANGED <<lock, job, acked, disturbed, layer, posts, now>>

Restart ==
    /\ job' = [c \in Posters |-> IdleJob]
    /\ lock' = None
    /\ strays' = {}
    /\ UNCHANGED <<file, tmp, acked, disturbed, layer, posts, now>>

-----------------------------------------------------------------------------
Rebuild(l) ==
    /\ layer' = l
    /\ UNCHANGED <<file, tmp, lock, job, strays, acked, disturbed, posts, now>>

Tick ==
    /\ now < MaxTime
    /\ now' = now + 1
    /\ UNCHANGED <<file, tmp, lock, job, strays, acked, disturbed, layer, posts>>

Next ==
    \/ \E c \in Posters : \/ \E i \in Inputs : Post(c, i)
                          \/ Enter(c) \/ WriteTmp(c) \/ RenameTmp(c)
                          \/ Abort(c) \/ Abandon(c)
    \/ \E o \in strays : CarryOut(o)
    \/ Restart
    \/ \E l \in Layers : Rebuild(l)
    \/ Tick

Spec == Init /\ [][Next]_vars

-----------------------------------------------------------------------------
Stored == {file[i] : i \in 1..Len(file)}

\* Unless a handler was abandoned inside a file operation, no statement that was
\* acknowledged is ever missing from the file, and none is there twice.
NothingLost ==
    ~disturbed => /\ acked \subseteq Stored
                  /\ Cardinality(Stored) = Len(file)

\* The gate and the publisher work out independently which statement prevails; whenever the
\* gate lets the layer pass, the published document names no open vulnerability.
PublishedAgrees ==
    Verdict = "allowed" =>
        \A s \in PublishedStatements : s.status \notin {"affected", "under_investigation"}

\* README.md:7: VEX is part of the durable truth.  Acknowledged statements are kept.
AcknowledgedIsDurable == acked \subseteq Stored

\* A denial somebody stated, and that nothing but expired exceptions came after.
DeniedAgain(i) ==
    /\ file[i].status \in {"affected", "under_investigation"}
    /\ \A j \in (i + 1)..Len(file) :
          SameVexKey(file[i], file[j]) =>
              file[j].status = "not_affected" /\ ~vex_statement_is_unexpired(file[j], now)

\* README.md:119: an external not_affected resolves something until it expires, no longer.
ExceptionsExpire == Verdict = "allowed" => \A i \in 1..Len(file) : ~DeniedAgain(i)
=============================================================================
