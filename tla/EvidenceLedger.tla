---------------------------- MODULE EvidenceLedger ----------------------------
(***************************************************************************)
(* What the registry promises about its evidence, without handlers, locks, *)
(* files or time: an append-only ledger of build records, each of which    *)
(* refers to exhibits (scans) that are on file when it is appended and     *)
(* stay there; and streams of layer bytes, each begun only for bytes that  *)
(* an entry of the ledger vouches for.                                     *)
(***************************************************************************)
CONSTANTS None, Pullers

VARIABLES
    exhibits,   \* the scans on file
    ledger,     \* the build records
    streams     \* [Pullers -> the bytes being streamed, or None]

lvars == <<exhibits, ledger, streams>>

SameRecipe(x, e) == x.recipe_digest = e.recipe_digest

Cites(e, x) == SameRecipe(x, e) /\ x.id \in {e.source_scan_id, e.artifact_scan_id}

OnFile(e, id) == id = None \/ \E x \in exhibits : SameRecipe(x, e) /\ x.id = id

Vouches(e, bytes) ==
    /\ e.status = "succeeded"
    /\ e.artifact # None
    /\ e.artifact.digest = bytes
    /\ \E x \in exhibits : /\ SameRecipe(x, e)
                           /\ x.id = e.artifact_scan_id
                           /\ x.layers = {bytes}

Init ==
    /\ exhibits = {} /\ ledger = {}
    /\ streams = [p \in Pullers |-> None]

\* A new exhibit, under an id no exhibit has.
File ==
    /\ \E x \in exhibits' :
          /\ \A y \in exhibits : y.id # x.id
          /\ exhibits' = exhibits \cup {x}
    /\ UNCHANGED <<ledger, streams>>

\* An exhibit may be withdrawn as long as no entry cites it.
Withdraw ==
    /\ \E x \in exhibits :
          /\ \A e \in ledger : ~Cites(e, x)
          /\ exhibits' = exhibits \ {x}
    /\ UNCHANGED <<ledger, streams>>

\* A new entry, under an id no entry has, whose exhibits are on file.
Append ==
    /\ \E e \in ledger' :
          /\ \A f \in ledger : f.id # e.id
          /\ OnFile(e, e.source_scan_id) /\ OnFile(e, e.artifact_scan_id)
          /\ ledger' = ledger \cup {e}
    /\ UNCHANGED <<exhibits, streams>>

Stream(p) ==
    /\ streams[p] = None
    /\ streams'[p] # None
    /\ \E e \in ledger : Vouches(e, streams'[p])
    /\ streams' = [streams EXCEPT ![p] = streams'[p]]
    /\ UNCHANGED <<exhibits, ledger>>

Stop ==
    /\ streams' \in [Pullers -> {None} \cup {streams[p] : p \in Pullers}]
    /\ \A p \in Pullers : streams'[p] \in {None, streams[p]}
    /\ UNCHANGED <<exhibits, ledger>>

Next == File \/ Withdraw \/ Append \/ (\E p \in Pullers : Stream(p)) \/ Stop

Spec == Init /\ [][Next]_lvars
=============================================================================
