----------------------------- MODULE LayerUnpack -----------------------------
(***************************************************************************)
(* Unpacking the tar of a layer, or those of all layers of an image        *)
(* archive, into an empty directory (src/image.rs), as a function of their *)
(* entries; and, apart from it, a definition of what the result should be. *)
(*                                                                         *)
(* A path is a sequence of names.  The entry ".wh.x" of a directory is a   *)
(* whiteout of the path of x, ".wh..wh..opq" an opaque entry of the path   *)
(* of its directory.  A path that is absolute, too deep or leads out of    *)
(* the tree counts as empty, a target that does as Outside.  The content   *)
(* of a symlink is the path it leads to; other contents are abstract.      *)
(***************************************************************************)
EXTENDS Naturals, SequencesExt

CONSTANTS MaxEntries, MaxUnpackedBytes,   \* limits of the unpacker (TarLimits)
          MaxLayers,                      \* layers of an image (MAX_IMAGE_LAYERS)
          NoContent,                      \* what a directory contains, besides its entries
          Outside                         \* target of a symlink that leads out of the tree

ASSUME LimitsAssumption == MaxEntries \in Nat /\ MaxUnpackedBytes \in Nat /\ MaxLayers \in Nat

\* A tar is a list of entries; a path is a list of names.
IsList(s) == s \in Seq(Range(s))
IsTar(tar) ==
    /\ IsList(tar)
    /\ \A i \in 1..Len(tar) :
          /\ IsList(tar[i].path)
          /\ tar[i].kind = "symlink" => tar[i].content = Outside \/ IsList(tar[i].content)

Node(kind, content) == [kind |-> kind, content |-> content]
Directory == Node("dir", NoContent)

\* The directories that must be there before the entry is looked at.
Parents(e) ==
    {SubSeq(e.path, 1, n) : n \in 1..(IF e.kind = "opaque" THEN Len(e.path) ELSE Len(e.path) - 1)}

\* A tree without p and everything below it.
remove_path(tree, p) == Restrict(tree, {q \in DOMAIN tree : ~IsPrefix(p, q)})

Put(tree, p, node) == [q \in DOMAIN tree \cup {p} |-> IF q = p THEN node ELSE tree[q]]

IsDir(tree, p) == p \in DOMAIN tree /\ tree[p].kind = "dir"
IsFile(tree, p) == p \in DOMAIN tree /\ tree[p].kind = "file"

\* Missing parents are created; one that is no real directory fails the unpacking.
ParentsAreSafe(tree, e) == \A p \in Parents(e) : p \in DOMAIN tree => IsDir(tree, p)
create_safe_parent(tree, e) ==
    [p \in DOMAIN tree \cup Parents(e) |-> IF p \in DOMAIN tree THEN tree[p] ELSE Directory]

-----------------------------------------------------------------------------
\* Where an entry leads: the tree so far, the links to make in the end, the entries and bytes
\* counted (TarBudget), and whether the unpacking has failed.
\* A compressed tar may unpack no more than its allowance, which is in proportion to its size.
Start == [tree |-> << >>, links |-> << >>, entries |-> 0, bytes |-> 0, limit |-> 0,
          failed |-> FALSE]

Counted(e) == e.kind \notin {"whiteout", "opaque"}

OverBudget(st, e) == Counted(e) /\ st.bytes + e.size > st.limit

\* The target of a symlink or of a hard link.
LeadsOut(e) ==
    \/ e.kind = "symlink" /\ e.content = Outside
    \/ e.kind = "link" /\ e.content = << >>

Rejected(st, e) ==
    \/ ~ParentsAreSafe(st.tree, e)
    \/ OverBudget(st, e)
    \/ e.kind \notin {"file", "dir", "symlink", "link", "whiteout", "opaque"}
    \/ LeadsOut(e)

apply_whiteout(tree, e) ==
    IF e.kind = "whiteout" THEN remove_path(tree, e.path)
    ELSE Restrict(tree, {q \in DOMAIN tree : ~IsStrictPrefix(e.path, q)})

\* The tree after the entry: whiteouts erase, files and symlinks replace what is there, a
\* directory only what is none, hard links wait.
After(tree, e) ==
    CASE e.kind \in {"whiteout", "opaque"} -> apply_whiteout(tree, e)
      [] e.kind \in {"file", "symlink"} ->
             Put(remove_path(tree, e.path), e.path, Node(e.kind, e.content))
      [] e.kind = "dir" /\ ~IsDir(tree, e.path) ->
             Put(remove_path(tree, e.path), e.path, Directory)
      [] OTHER -> tree

\* An entry without a proper path is skipped.
UnpackEntry(st, e) ==
    IF e.path = << >> THEN st
    ELSE IF st.failed \/ Rejected(st, e) THEN [st EXCEPT !.failed = TRUE]
    ELSE [st EXCEPT !.tree = After(create_safe_parent(@, e), e),
                    !.links = IF e.kind = "link" THEN Append(@, e) ELSE @,
                    !.bytes = IF Counted(e) THEN @ + e.size ELSE @]

\* A path leads through a symlink above its last name, which the entries of the tar never
\* do (ParentsAreSafe), but hard links.  One through two symlinks leads nowhere here, as if the
\* second one dangled.
Redirected(p, n, content) == content \o SubSeq(p, n + 1, Len(p))
Followed(tree, p) ==
    LET Through(n) == SubSeq(p, 1, n) \in DOMAIN tree /\ tree[SubSeq(p, 1, n)].kind = "symlink"
        symlinks == {n \in 1..(Len(p) - 1) : Through(n)}
    IN  IF symlinks = {} THEN p
        ELSE LET n == CHOOSE n \in symlinks : TRUE
             IN  Redirected(p, n, tree[SubSeq(p, 1, n)].content)

\* A hard link needs a regular file, which must survive making room for the link, and a
\* directory to be in.
MakeLink(st, e) ==
    LET target == Followed(st.tree, e.path)
        cleared == remove_path(st.tree, target)
        source == Followed(cleared, e.content)
    IN  IF \/ st.failed
           \/ ~IsFile(st.tree, Followed(st.tree, e.content))
           \/ ~IsFile(cleared, source)
           \/ Followed(cleared, e.path) # target
           \/ \E n \in 1..(Len(target) - 1) : ~IsDir(cleared, SubSeq(target, 1, n))
        THEN [st EXCEPT !.failed = TRUE]
        ELSE [st EXCEPT !.tree = Put(cleared, target, cleared[source])]

\* Mutant: whiteouts are applied when all files are there, as across layers.
UnpackTarWhiteoutsLast(tar) ==
    LET Late(e) == e.kind \in {"whiteout", "opaque"}
        Early(e) == ~Late(e)
        unpacked == FoldLeft(UnpackEntry, [Start EXCEPT !.limit = MaxUnpackedBytes],
                             SelectSeq(tar, Early) \o SelectSeq(tar, Late))
    IN  FoldLeft(MakeLink, unpacked, unpacked.links)

\* Into what is there already, with the budget that is left: one entry after the other, then
\* the hard links in their order.
UnpackOver(st, tar, allowance) ==
    LET seen == st.entries + Len(tar)
        begun == [st EXCEPT !.links = << >>, !.entries = seen,
                            !.limit = Min({MaxUnpackedBytes, st.bytes + allowance}),
                            !.failed = @ \/ seen > MaxEntries]
        unpacked == FoldLeft(UnpackEntry, begun, tar)
    IN  FoldLeft(MakeLink, unpacked, unpacked.links)

UnpackTar(tar) == UnpackOver(Start, tar, MaxUnpackedBytes)

-----------------------------------------------------------------------------
(***************************************************************************)
(* Image archives: the format, whether the descriptors of the manifest and *)
(* of the config fit their blobs, the diff IDs of the config, and the      *)
(* layers, each a tar, its compression, its allowance and a descriptor.  A *)
(* diff ID is the digest of a tar, and so the tar itself; the digest of a  *)
(* layer covers its compression too.                                       *)
(***************************************************************************)

\* A descriptor names the blob it is for, and says its size and compression.
DescriptorFits(layer) ==
    /\ layer.descriptor.digest = <<layer.tar, layer.compression>>
    /\ layer.descriptor.sized
    /\ layer.descriptor.media_type = layer.compression

\* As many diff IDs as layers, each of them that of its layer.
DiffIdsFit(image) == image.diff_ids = [i \in DOMAIN image.layers |-> image.layers[i].tar]

UnpackLayer(st, layer) ==
    UnpackOver(st, layer.tar, IF layer.compression = "none" THEN MaxUnpackedBytes
                              ELSE layer.allowance)

\* The layers are unpacked one over the other, with one budget.
UnpackLayers(image) ==
    IF Len(image.layers) <= MaxLayers /\ DiffIdsFit(image)
    THEN FoldLeft(UnpackLayer, Start, image.layers)
    ELSE [Start EXCEPT !.failed = TRUE]

reconstruct_docker_archive(image) == UnpackLayers(image)

reconstruct_oci_archive(image) ==
    IF image.described /\ \A i \in DOMAIN image.layers : DescriptorFits(image.layers[i])
    THEN UnpackLayers(image)
    ELSE [Start EXCEPT !.failed = TRUE]

unpack_image_archive(image) ==
    CASE image.format = "docker" -> reconstruct_docker_archive(image)
      [] image.format = "oci" -> reconstruct_oci_archive(image)
      [] OTHER -> [Start EXCEPT !.failed = TRUE]

-----------------------------------------------------------------------------
(***************************************************************************)
(* The reference: what is at a path in the end, from the last entry that   *)
(* has a say about it.  Layers have the last say over those below them, so *)
(* that for an image the entries of all its layers are taken in a row.     *)
(***************************************************************************)
Provides(e, p) ==
    \/ e.kind \in {"file", "dir", "symlink"} /\ e.path = p /\ p # << >>
    \/ p \in Parents(e)

Erases(e, p) ==
    /\ e.path # << >>
    /\ \/ e.kind \in {"whiteout", "file", "symlink"} /\ IsPrefix(e.path, p)
       \/ e.kind = "opaque" /\ IsStrictPrefix(e.path, p)

\* Entries that provide p, and that nothing after them erases.
Providers(tar, p) ==
    {i \in 1..Len(tar) : /\ Provides(tar[i], p)
                         /\ \A j \in (i + 1)..Len(tar) : ~Erases(tar[j], p)}

MergedPaths(tar) ==
    {p \in {tar[i].path : i \in 1..Len(tar)} \cup UNION {Parents(tar[i]) : i \in 1..Len(tar)} :
        Providers(tar, p) # {}}

Merged(tar) ==
    [p \in MergedPaths(tar) |->
        LET last == tar[CHOOSE i \in Providers(tar, p) : \A j \in Providers(tar, p) : j <= i]
        IN  IF last.path = p /\ last.kind \in {"file", "symlink"}
            THEN Node(last.kind, last.content) ELSE Directory]
=============================================================================
