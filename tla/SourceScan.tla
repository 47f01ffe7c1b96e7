------------------------------ MODULE SourceScan ------------------------------
(***************************************************************************)
(* The walk over a source tree while developers go on editing it           *)
(* (scan_filesystem_report_with_limits and scan_file in src/scanner.rs).   *)
(* The registry's own data directory is not part of the tree.              *)
(*                                                                         *)
(* The walk meets the files in any order.  Of each it first takes mode and *)
(* length, then reads it: once, if it is of ordinary size, or else its     *)
(* first bytes and then the whole for the digest.  The tree may change     *)
(* before every one of these steps.  A file that comes into being during   *)
(* the walk may be met or not.                                             *)
(***************************************************************************)
EXTENDS FileInspection, FiniteSets

CONSTANT MaxScanFiles   \* limit of a scan; the limit on bytes is not told apart

ASSUME ScanAssumption == MaxScanFiles \in Nat

VARIABLES
    tree,       \* the source tree: [paths -> nodes]
    scanner,    \* ScannerState of the walk
    due,        \* files that were there at its start and have not been met
    visiting,   \* the file being looked at: [path, stat, prefix]; no path, no file
    raced,      \* files that changed while they were looked at, and were long before or after
    touched     \* files edited since its start

scanVars == <<tree, scanner, due, visiting, raced, touched>>

NoFile == [path |-> None, stat |-> None, prefix |-> None]

InitScan ==
    /\ tree = << >> /\ scanner = ScannerState /\ due = {}
    /\ visiting = NoFile /\ raced = {} /\ touched = {}

FilesOf(t) == {p \in DOMAIN t : t[p].kind \in {"file", "symlink"}}

StartWalk(t) ==
    /\ scanner' = ScannerState
    /\ due' = FilesOf(t)
    /\ visiting' = NoFile
    /\ raced' = {} /\ touched' = {}

-----------------------------------------------------------------------------
Incomplete == \E f \in scanner.findings : f.category = "scan-incomplete"

MayMeet(p) ==
    /\ visiting.path = None
    /\ ~Incomplete
    /\ p \in FilesOf(tree) \ DOMAIN scanner.digests

OverLimit == scanner.files_scanned >= MaxScanFiles

Met == [scanner EXCEPT !.files_scanned = @ + 1]

\* The walk ends here, wherever it is in the tree.
LimitReached(p) ==
    /\ MayMeet(p)
    /\ OverLimit
    /\ scanner' = Add(Met, {Finding("scan-incomplete", "high", None)}, {})
    /\ UNCHANGED <<tree, due, visiting, raced, touched>>

MeetSymlink(p) ==
    /\ MayMeet(p)
    /\ ~OverLimit
    /\ tree[p].kind = "symlink"
    /\ scanner' = [Met EXCEPT !.digests = With(@, p, Digested("symlink", tree[p].content))]
    /\ due' = due \ {p}
    /\ UNCHANGED <<tree, visiting, raced, touched>>

\* fs::metadata: mode and length.
Stat(p) ==
    /\ MayMeet(p)
    /\ ~OverLimit
    /\ tree[p].kind = "file"
    /\ scanner' = Met
    /\ visiting' = [path |-> p, stat |-> tree[p].content, prefix |-> None]
    /\ due' = due \ {p}
    /\ UNCHANGED <<tree, raced, touched>>

Visiting(p) == visiting.path = p /\ p \in DOMAIN tree

\* The bytes as they are now, under the mode as it was before.
Current(p) == [tree[p].content EXCEPT !.exec = visiting.stat.exec]

\* Mutant: the file is read a second time for its digest.
ReadFileTwice(recipe, p) ==
    /\ Visiting(p)
    /\ ~visiting.stat.long
    /\ IF visiting.prefix = None
       THEN visiting' = [visiting EXCEPT !.prefix = Current(p)] /\ UNCHANGED scanner
       ELSE /\ scanner' = [InspectRead(recipe, p, visiting.prefix, scanner)
                              EXCEPT !.digests[p] = Digested("file", Current(p))]
            /\ visiting' = NoFile
    /\ UNCHANGED <<tree, due, raced, touched>>

ReadFile(recipe, p) ==
    /\ Visiting(p)
    /\ ~visiting.stat.long
    /\ scanner' = InspectRead(recipe, p, Current(p), scanner)
    /\ raced' = IF Current(p).long THEN raced \cup {p} ELSE raced
    /\ visiting' = NoFile
    /\ UNCHANGED <<tree, due, touched>>

\* If the file is not there any more, its first bytes are taken to be none; it may be there
\* again when it is digested.
ReadPrefix ==
    /\ visiting.path # None
    /\ visiting.stat.long
    /\ visiting.prefix = None
    /\ visiting' = [visiting EXCEPT
          !.prefix = IF visiting.path \in DOMAIN tree THEN tree[visiting.path].content
                     ELSE [visiting.stat EXCEPT !.binary = FALSE]]
    /\ UNCHANGED <<tree, scanner, due, raced, touched>>

DigestWhole(p) ==
    /\ Visiting(p)
    /\ visiting.prefix # None
    /\ visiting.stat.long
    /\ scanner' = InspectLong(p, visiting.stat.exec, visiting.prefix.binary, Current(p), scanner)
    /\ raced' = IF \A read \in {visiting.prefix, visiting.stat} : SameBytes(Current(p), read)
                THEN raced ELSE raced \cup {p}
    /\ visiting' = NoFile
    /\ UNCHANGED <<tree, due, touched>>

\* A file that is removed before the walk lists it is not missed ...
Unlisted(p) ==
    /\ visiting.path = None
    /\ p \in due \ DOMAIN tree
    /\ due' = due \ {p}
    /\ UNCHANGED <<tree, scanner, visiting, raced, touched>>

\* ... one that is removed afterwards fails the scan.
WalkCanFail ==
    IF visiting.path = None THEN ~Incomplete /\ due \ DOMAIN tree # {}
    ELSE visiting.path \notin DOMAIN tree /\ (visiting.stat.long => visiting.prefix # None)

WalkStep(recipe) ==
    \/ ReadPrefix
    \/ \E p \in DOMAIN tree \cup due :
          \/ LimitReached(p) \/ MeetSymlink(p) \/ Stat(p) \/ Unlisted(p)
          \/ ReadFile(recipe, p) \/ DigestWhole(p)

WalkOver == visiting.path = None /\ (due = {} \/ Incomplete)

\* A developer writes or removes a file.
EditTree(p, node) ==
    /\ tree' = IF node = None THEN Restrict(tree, DOMAIN tree \ {p}) ELSE With(tree, p, node)
    /\ touched' = touched \cup {p}
    /\ UNCHANGED <<scanner, due, visiting, raced>>
=============================================================================
