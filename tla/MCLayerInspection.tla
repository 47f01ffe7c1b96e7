-------------------------- MODULE MCLayerInspection --------------------------
(***************************************************************************)
(* A small instance of LayerInspection for TLC.  One family of requests    *)
(* tries every short tar under the default policy; one every policy and a  *)
(* few pairs of a source and a layer; one every kind of file with all that *)
(* may be in it; one a source under edit; one the materials; one posts     *)
(* scans of such sources; one scans images of two layers.                  *)
(***************************************************************************)
EXTENDS LayerInspection

V(form, number) == [form |-> form, number |-> number]

\* The versions there are, in the order of their texts.
Versions == <<None, V("plain", 1), V("plain", 2), V("pinned", 1), V("range", 1), V("floating", 1)>>

Lib(kind, i) == Component(kind, "lib", Versions[i])
Libs(kind) == <<Lib(kind, 1), Lib(kind, 2), Lib(kind, 3), Lib(kind, 4), Lib(kind, 5), Lib(kind, 6)>>

MCCatalogue ==
    Libs("apk") \o Libs("cargo-declared") \o Libs("cargo") \o Libs("deb") \o Libs("go")
    \o Libs("maven") \o <<Component("maven", "maven-project", None)>> \o Libs("npm-declared")
    \o Libs("npm") \o Libs("nuget") \o Libs("pypi") \o <<Component("pypi", "lib", V("marked", 1))>>

MCPathOrder ==
    <<<<"A", "Cargo.lock">>, <<"Cargo.lock">>, <<"Cargo.toml">>, <<"Dockerfile">>, <<"README.md">>,
      <<"build.sh">>, <<"d">>, <<"d", "Cargo.lock">>, <<"docs", "notes">>, <<"go.mod">>,
      <<"go.sum">>, <<"lib", "apk", "db", "installed">>, <<"package-lock.json">>,
      <<"package.json">>, <<"packages.lock.json">>, <<"pnpm-lock.yaml">>, <<"pom.xml">>,
      <<"requirements.txt">>, <<"server.key">>, <<"tool">>,
      <<"var", "lib", "dpkg", "status">>>>

\* OSV knows plain versions.
MCAdvisories ==
    {[ecosystem |-> e, name |-> "lib", versions |-> {V("plain", 1)}, vulnerability |-> "cve"] :
        e \in {"crates.io", "npm"}}
    \cup {[ecosystem |-> "crates.io", name |-> "lib", versions |-> {V("plain", 1), V("plain", 2)},
           vulnerability |-> "cve-b"]}

-----------------------------------------------------------------------------
\* Files.
Text(deps) ==
    [exec |-> FALSE, long |-> FALSE, binary |-> FALSE, parses |-> TRUE, deps |-> deps, marks |-> {}]
Empty == Text({})

\* As it is declared at best in a lock file.
Dep(version) ==
    [name |-> "lib", version |-> version, hashed |-> TRUE, from |-> "registry", script |-> FALSE]

Old == Text({Dep(V("plain", 1))})
New == Text({Dep(V("plain", 2))})
Both == Text({Dep(V("plain", 1)), Dep(V("plain", 2))})
Pinned == Text({Dep(V("pinned", 1))})
Unversioned == Text({Dep(None)})

cargo == <<"Cargo.lock">>
nested == <<"d", "Cargo.lock">>
toml == <<"Cargo.toml">>
npm == <<"package-lock.json">>
dpkg == <<"var", "lib", "dpkg", "status">>
tool == <<"tool">>

File(c) == Node("file", c)

Entry(kind, path, content, size) ==
    [kind |-> kind, path |-> path, content |-> content, size |-> size]

FileEntry(path, c) == Entry("file", path, c, IF c = Empty THEN 2 ELSE 1)

\* The tar of a tree with nothing but files.
Tar(t) == [i \in 1..Cardinality(DOMAIN t) |->
              LET p == SetToSeq(DOMAIN t)[i] IN FileEntry(p, t[p].content)]

MCRecipe(require_osv) ==
    [digest |-> "recipe", immutable_revision |-> TRUE, builder_sha256 |-> TRUE,
     materials_digested |-> TRUE, durable_metadata_only |-> TRUE, declares_artifact |-> TRUE,
     allow_external_vex_overrides |-> FALSE, require_osv |-> require_osv,
     command |-> {<<"build.sh">>}, materials |-> {}]

BuildOf(t, tar, mode, recipe) ==
    [kind |-> "build", mode |-> mode, recipe |-> recipe, tree |-> t, edits |-> {}, tar |-> tar]

Offline(t, tar) == BuildOf(t, tar, "disabled", MCRecipe(FALSE))

-----------------------------------------------------------------------------
\* Two files, one of them in a directory, and everything that may happen to them.  The symlink
\* in the place of the directory leads to the root.
d == <<"d">>
Entries ==
    {FileEntry(nested, Old), FileEntry(nested, New), FileEntry(npm, New), FileEntry(npm, Old),
     FileEntry(d, Empty), Entry("dir", d, NoContent, 0), Entry("symlink", d, << >>, 0),
     Entry("link", npm, nested, 0), Entry("link", nested, <<"d", "package-lock.json">>, 0),
     Entry("whiteout", d, NoContent, 0),
     Entry("whiteout", nested, NoContent, 0), Entry("opaque", d, NoContent, 0),
     Entry("fifo", npm, NoContent, 0)}

\* One tar has more files than a scan looks at, one more entries than are unpacked.
Crowded == <<FileEntry(nested, New), FileEntry(npm, New), FileEntry(dpkg, Old)>>
Long == <<FileEntry(nested, Old), FileEntry(npm, New), FileEntry(npm, New), FileEntry(npm, New)>>

\* Entries and targets that lead out of the tree.
Escapes ==
    {FileEntry(<< >>, Old), Entry("dir", << >>, NoContent, 0), Entry("symlink", npm, Outside, 0),
     Entry("link", npm, << >>, 0), Entry("whiteout", << >>, NoContent, 0)}

Tars ==
    UNION {[1..n -> Entries] : n \in 1..3} \cup {Crowded, Long}
    \cup UNION {{<<e, out>>, <<out, e>>} : e \in Entries, out \in Escapes}

AnyTar == {BuildOf(<< >>, tar, "required", MCRecipe(FALSE)) : tar \in Tars}

-----------------------------------------------------------------------------
\* A library in two versions, its namesake of another ecosystem, one without a version, a
\* declaration, and a system package OSV is not asked about.
Trees ==
    {cargo :> File(Old), cargo :> File(New), cargo :> File(Both),
     (cargo :> File(Old)) @@ (npm :> File(Old)), (cargo :> File(New)) @@ (npm :> File(Old)),
     npm :> File(Unversioned), toml :> File(Pinned), dpkg :> File(Old)}

AnyPolicy ==
    {BuildOf(s, Tar(l), mode, MCRecipe(require)) :
        mode \in {"required", "best_effort", "disabled"}, require \in BOOLEAN,
        s \in Trees, l \in Trees}

-----------------------------------------------------------------------------
\* Every kind of manifest, with a dependency that is declared well, and with each thing that
\* may be amiss.
Versioned(d0) == {[d0 EXCEPT !.version = Versions[i]] : i \in DOMAIN Versions}
Unhashed_(d0) == [d0 EXCEPT !.hashed = FALSE]

\* A specification is a version or a source.
Specified(d0) ==
    Versioned(d0) \cup {[d0 EXCEPT !.version = V("floating", 1), !.from = s] : s \in {"remote", "local"}}

Declared(version) == [Dep(version) EXCEPT !.hashed = None]
Unread == [Declared(V("range", 1)) EXCEPT !.from = "unread"]
Locked == {Dep(None), Dep(V("plain", 1)), Unhashed_(Dep(V("plain", 1))), Unhashed_(Dep(None))}

Declarations(name) ==
    CASE name = "Cargo.lock" -> Locked \cup {[Unhashed_(Dep(V("plain", 1))) EXCEPT !.from = "remote"]}
      [] name = "Cargo.toml" ->
             Versioned(Declared(None))
             \cup {[Declared(V("pinned", 1)) EXCEPT !.from = s] : s \in {"remote", "unknown", "path"}}
             \cup {[Declared(None) EXCEPT !.from = "odd"], Unread}
      [] name = "package-lock.json" ->
             Locked \cup {[Dep(V("plain", 1)) EXCEPT !.from = s] : s \in {"remote", "unknown", "local"}}
             \cup {[Dep(V("plain", 1)) EXCEPT !.script = TRUE]}
      [] name = "package.json" -> Specified(Declared(None)) \cup {Unread}
      [] name = "pnpm-lock.yaml" ->
             Specified(Declared(None)) \cup {Dep(V("plain", 1)), Unhashed_(Dep(V("plain", 1)))}
      [] name = "requirements.txt" ->
             Versioned(Dep(None)) \cup {Unhashed_(Dep(V("pinned", 1))), Dep(V("marked", 1))}
             \cup {[Dep(None) EXCEPT !.from = "remote"], [Unread EXCEPT !.hashed = FALSE]}
      [] name \in {"go.mod", "pom.xml"} -> Versioned(Declared(None))
      [] name = "go.sum" -> {Dep(V("plain", 1)), Unhashed_(Dep(V("plain", 1)))}
      [] OTHER -> Versioned(Dep(None)) \cup {Unhashed_(Dep(V("plain", 1)))}

MarksOf(name) ==
    {"key-header", "key-block", "legacy-crypto", "remote-execution"} \cup
    CASE name = "package.json" -> {"lifecycle-script", "publish-script"}
      [] name = "go.mod" -> {"replace"}
      [] name = "packages.lock.json" -> {"no-targets"}
      [] name = "Dockerfile" -> {"from"}
      [] OTHER -> {}

Sum == Text({Dep(V("plain", 1))})

\* What a file of that name may be: well or badly formed, short or long, text or not.
ContentsOf(path) ==
    LET name == Last(path)
        deps == IF name \in Manifests THEN Declarations(name) ELSE {Dep(V("plain", 1))}
        plain == {Text({dep}) : dep \in deps} \cup {Empty}
        marked == {[Empty EXCEPT !.marks = {k}, !.exec = x] : k \in MarksOf(name), x \in BOOLEAN}
        binary == {[Empty EXCEPT !.binary = TRUE, !.exec = x, !.marks = m] :
                      x \in BOOLEAN, m \in {{}, {"legacy-crypto", "network"}}}
        long == {[Empty EXCEPT !.long = TRUE, !.exec = x, !.binary = b] :
                    x \in BOOLEAN, b \in BOOLEAN}
    IN  plain \cup marked \cup binary \cup long
        \cup {[c EXCEPT !.parses = FALSE] : c \in plain}

\* The paths at which the walk may find a file, but for the namesakes.
Places == ToSet(MCPathOrder) \ {<<"A", "Cargo.lock">>, nested, d}

SingleFiles ==
    {p :> File(c) : <<p, c>> \in UNION {{<<p, c>> : c \in ContentsOf(p)} : p \in Places}}

\* A requirement with its checksum, and with another's.
Modules ==
    {(<<"go.mod">> :> File(Text({Declared(V("plain", 1))}))) @@ (<<"go.sum">> :> File(c)) :
        c \in {Sum, New, Text({Unhashed_(Dep(V("plain", 1)))})}}

Inspected == SingleFiles \cup Modules

AnyFile == {Offline(t, << >>) : t \in Inspected} \cup {Offline(<< >>, Tar(t)) : t \in Inspected}

-----------------------------------------------------------------------------
\* A lock file and a long file, which are edited while they are looked at.  One source has
\* more files than a scan looks at, one a symlink.
Bad == Text({Unhashed_(Dep(V("plain", 1)))})
Data == [Empty EXCEPT !.long = TRUE]

Edits ==
    {[path |-> cargo, node |-> n] : n \in {None, File(Old), File(Bad), File([Old EXCEPT !.exec = TRUE]),
                                             File([Old EXCEPT !.long = TRUE])}}
    \cup {[path |-> tool, node |-> n] :
             n \in {None, File(Data), File([Data EXCEPT !.binary = TRUE]),
                    File([Data EXCEPT !.exec = TRUE]), File(Empty),
                    File([Empty EXCEPT !.marks = {"key-block"}])}}
    \cup {[path |-> <<"build.sh">>, node |-> File(Empty)]}

Edited ==
    {[Offline(t, << >>) EXCEPT !.edits = Edits] :
        t \in {(cargo :> File(Old)) @@ (tool :> File(Data)),
               (cargo :> File(Bad)) @@ (tool :> Node("symlink", NoContent))}}
    \cup {Offline((cargo :> File(Old)) @@ (tool :> File(Empty)) @@ (dpkg :> File(Old)), << >>)}

\* A declared lock file and its namesakes.
Material(kind, name, c) == [kind |-> kind, name |-> name, content |-> c]

Locks == {<<"A", "Cargo.lock">>, cargo, nested}

Materials ==
    {[Offline([p \in ps |-> File(c[p])], << >>) EXCEPT !.recipe.materials = ms] :
        ps \in {ps \in SUBSET Locks : Cardinality(ps) <= MaxScanFiles},
        c \in [Locks -> {Old, New, [Old EXCEPT !.exec = TRUE]}],
        ms \in {{Material("lockfile", cargo, Old)}, {Material("lockfile", nested, Old)},
                {Material("crate", <<"lib">>, NoContent)}}}

-----------------------------------------------------------------------------
\* The same trees for POST .../scans.
PostedScans ==
    {[kind |-> k, mode |-> "disabled", recipe |-> b.recipe, tree |-> b.tree, edits |-> b.edits] :
        k \in {"source", "filesystem"}, b \in Edited \cup Materials}

-----------------------------------------------------------------------------
\* A layer as it should be described, and one described wrongly in each possible way.
Layer(tar, compression) ==
    [tar |-> tar, compression |-> compression, allowance |-> 1,
     descriptor |-> [digest |-> <<tar, compression>>, sized |-> TRUE,
                     media_type |-> compression]]

Misdescribed(layer) ==
    {[layer EXCEPT !.descriptor.digest = <<Long, "none">>],
     [layer EXCEPT !.descriptor.sized = FALSE],
     [layer EXCEPT !.descriptor.media_type = "gzip"]}

Image(format, tars) ==
    [format |-> format, described |-> TRUE, diff_ids |-> tars,
     layers |-> [i \in 1..Len(tars) |-> Layer(tars[i], "none")]]

Small == <<FileEntry(nested, Old)>>
Bomb == <<FileEntry(dpkg, Empty)>>

\* Images whose parts do not fit together.
OddImages ==
    UNION {{[i EXCEPT !.described = FALSE], [i EXCEPT !.format = "neither"],
            [i EXCEPT !.diff_ids = <<Small>>], [i EXCEPT !.diff_ids = @ \o <<Small>>],
            [i EXCEPT !.diff_ids[2] = <<FileEntry(npm, Old)>>],
            [i EXCEPT !.layers[1] = Layer(Small, "gzip")],
            [i EXCEPT !.layers[1] = Layer(Bomb, "gzip"), !.diff_ids[1] = Bomb]}
           \cup {[i EXCEPT !.layers[2] = l] : l \in Misdescribed(i.layers[2])} :
        i \in {Image(format, <<Small, <<FileEntry(npm, New)>>>>) : format \in {"docker", "oci"}}}
    \cup {Image("docker", <<Small, Small, Small>>)}

\* Two layers, of three entries together.
Images ==
    UNION {{Image("oci", <<lower, upper>>) :
               lower \in [1..n -> Entries], upper \in [1..(3 - n) -> Entries]} : n \in 1..2}
    \cup OddImages

AnyImage ==
    {[kind |-> "image", mode |-> "required", recipe |-> MCRecipe(FALSE), image |-> i] :
        i \in Images}

MCRequests == AnyTar \cup AnyPolicy \cup AnyFile \cup Edited \cup Materials \cup PostedScans
              \cup AnyImage
=============================================================================
