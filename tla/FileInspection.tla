---------------------------- MODULE FileInspection ----------------------------
(***************************************************************************)
(* What a scan concludes from the files of a tree: scan_file with the      *)
(* parsers and policies behind it, and compare_recipe_metadata, in         *)
(* src/scanner.rs; analyze_binary in src/binary.rs.  Pure operators.       *)
(*                                                                         *)
(* A path is a sequence of names.  The content of a file is a record:      *)
(*   exec    whether its mode has an x bit                                 *)
(*   long    whether it is larger than max_file_bytes                      *)
(*   binary  whether it begins like an object file or has early NUL bytes  *)
(*   parses  whether its text is well-formed for the parser of its name    *)
(*   deps    the dependencies it declares                                  *)
(*   marks   what else there is in the text, of what the scanner looks for *)
(* A dependency has                                                        *)
(*   name                                                                  *)
(*   version  None, or a number and the form it is written in: "plain"     *)
(*            1.2.3, "pinned" =1.2.3 or ==1.2.3, "range", "floating" like  *)
(*            latest, or "marked": a range in a line that has == all the   *)
(*            same, as ==1.* or an environment marker                      *)
(*   hashed   an integrity hash is given; None where the format has none   *)
(*   from     what its source is: "registry"; "remote", a URL of a scheme  *)
(*            the scanner knows; "unknown", a URL of another, as ssh:// or *)
(*            git://; "local", a file: or workspace: reference; "path", a  *)
(*            bare path; "self" for the project; "odd" if it is declared   *)
(*            in no way the parser knows; "unread" if it is declared where *)
(*            the parser does not look                                     *)
(*   script   an install script is declared                                *)
(***************************************************************************)
EXTENDS MetadataGate, SequencesExt

CONSTANTS
    Catalogue,     \* all components there are, in the order of their keys
    PathOrder      \* all paths there are, in the order of their texts

ASSUME OrderAssumption ==
    \A order \in {Catalogue, PathOrder} : Len(order) \in Nat /\ DOMAIN order = 1..Len(order)

\* Where some elements are in a sequence, and the first of them.
Indices(s, elements) == {i \in DOMAIN s : s[i] \in elements}
First(s, elements) ==
    LET indices == Indices(s, elements) IN IF indices = {} THEN None ELSE s[Min(indices)]

IsContent(c) ==
    c = [exec |-> c.exec, long |-> c.long, binary |-> c.binary, parses |-> c.parses,
         deps |-> c.deps, marks |-> c.marks]

Finding(category, severity, evidence) ==
    [category |-> category, severity |-> severity, mentions |-> {}, evidence |-> evidence]

-----------------------------------------------------------------------------
(***************************************************************************)
(* Dependency policies: sets of <<category, subject>>, each one a finding  *)
(* of severity High and a candidate for a VEX assessment.                  *)
(***************************************************************************)
Flag(condition, category, subject) == IF condition THEN {<<category, subject>>} ELSE {}

add_sbom_policy_finding(policy, path) ==
    [finding |-> Finding(policy[1], "high", path),
     candidate |-> [vulnerability |-> policy[1], component |-> policy[2], evidence |-> path,
                    status |-> "under_investigation"]]

\* The forms of a version that count as exact (is_exact_version_spec and its kin).
ExactForms(ecosystem) ==
    CASE ecosystem = "cargo" -> {"pinned"}
      [] ecosystem = "go" -> {"plain"}
      [] ecosystem \in {"npm", "maven"} -> {"plain", "pinned"}
      [] ecosystem = "nuget" -> {"plain", "pinned", "floating"}

IsExact(ecosystem, d) == d.version # None /\ d.version.form \in ExactForms(ecosystem)

Unpinned(ecosystem, d) == Flag(~IsExact(ecosystem, d), "sbom-unpinned-dependency", d.name)
Unhashed(d) == Flag(~d.hashed, "sbom-missing-integrity", d.name)

\* It knows the source by the prefix of its text: http(s)://, git+, github:, gitlab:,
\* bitbucket:, npm:, file:, link: and workspace: are all there are.
enforce_dependency_source_policy(d) ==
    Flag(d.from \in {"remote", "local"}, "sbom-untrusted-source", d.name)

enforce_dependency_spec_policy(ecosystem, d) ==
    Unpinned(ecosystem, d) \cup enforce_dependency_source_policy(d)

enforce_npm_lock_policy(d) ==
    Unhashed(d) \cup Flag(d.script, "sbom-lifecycle-script", d.name)
                \cup enforce_dependency_source_policy(d)

\* Any == in the line makes a version a pinned one.
enforce_python_requirement_policy(d) ==
    Flag(d.version = None \/ d.version.form \notin {"pinned", "marked"},
         "sbom-unpinned-dependency", d.name)
    \cup Unhashed(d) \cup enforce_dependency_source_policy(d)

Component(kind, name, version) == [kind |-> kind, name |-> name, version |-> version]

\* A version enters the inventory as it is written, operator and all.
Listing(kind, deps) == {Component(kind, d.name, d.version) : d \in deps}

-----------------------------------------------------------------------------
(***************************************************************************)
(* The parsers.                                                            *)
(***************************************************************************)
\* Tables such as [target.*.dependencies], [workspace.dependencies] and peerDependencies, and
\* the lines of requirements.txt that begin with a dash, are passed over.
Read(c) == {d \in c.deps : d.from # "unread"}

Nothing == [components |-> {}, policies |-> {}, error |-> FALSE, requires |-> {}, checksums |-> {}]
ParseError == [Nothing EXCEPT !.error = TRUE]

Parse(components, policies) ==
    [Nothing EXCEPT !.components = components, !.policies = policies]

\* A lock file that cargo_lock cannot read is gone through line by line, and then every
\* package with a version needs a checksum, wherever it comes from.
parse_cargo_lock(c) ==
    LET Suspect(d) == ~d.hashed /\ IF c.parses THEN d.from = "registry" ELSE d.version # None
    IN  Parse(Listing("cargo", c.deps), UNION {Unhashed(d) : d \in {d \in c.deps : Suspect(d)}})

parse_cargo_toml(c) ==
    IF ~c.parses THEN ParseError
    ELSE Parse(Listing("cargo-declared", {d \in Read(c) : d.from # "odd"}),
               UNION {enforce_dependency_spec_policy("cargo", d) : d \in Read(c)})

parse_package_lock(c) ==
    IF ~c.parses THEN ParseError
    ELSE Parse(Listing("npm", c.deps), UNION {enforce_npm_lock_policy(d) : d \in c.deps})

\* Scripts are judged by their name and by what they mention.
parse_package_json(c) ==
    IF ~c.parses THEN ParseError
    ELSE Parse(Listing("npm-declared", Read(c)),
               Flag("lifecycle-script" \in c.marks, "sbom-lifecycle-script", "scripts")
               \cup Flag("publish-script" \in c.marks, "sbom-suspicious-package-script", "scripts")
               \cup UNION {enforce_dependency_spec_policy("npm", d) : d \in Read(c)})

\* Specifiers of importers have no hash; packages have no source.
parse_pnpm_lock(c) ==
    LET importers == {d \in c.deps : d.hashed = None /\ d.version # None}
        packages == {d \in c.deps : d.hashed # None}
    IN  IF ~c.parses THEN ParseError
        ELSE Parse(Listing("npm-declared", importers) \cup Listing("npm", packages),
                   UNION ({enforce_dependency_spec_policy("npm", d) : d \in importers}
                          \cup {Unhashed(d) : d \in packages}))

\* Only here is the operator taken off the version; the rest of a marked one remains.
parse_requirements(c) ==
    LET Bare(d) == IF d.version = None \/ d.version.form = "marked" THEN d
                   ELSE [d EXCEPT !.version.form = "plain"]
    IN  Parse(Listing("pypi", {Bare(d) : d \in Read(c)}),
              UNION {enforce_python_requirement_policy(d) : d \in Read(c)})

\* Whether a requirement has a checksum is decided when all files have been read.
parse_go_mod(c) ==
    [Parse(Listing("go", c.deps),
           Flag("replace" \in c.marks, "sbom-untrusted-source", "go.mod")
           \cup UNION {Unpinned("go", d) : d \in c.deps})
        EXCEPT !.requires = {<<d.name, d.version>> : d \in {d \in c.deps : IsExact("go", d)}}]

parse_go_sum(c) ==
    [Parse({}, UNION {Unhashed(d) : d \in c.deps})
        EXCEPT !.checksums = {<<d.name, d.version>> : d \in {d \in c.deps : d.hashed}}]

parse_nuget_lock(c) ==
    IF ~c.parses THEN ParseError
    ELSE Parse(Listing("nuget", c.deps),
               Flag("no-targets" \in c.marks, "sbom-missing-integrity", "packages.lock.json")
               \cup UNION {Unpinned("nuget", d) \cup Unhashed(d) : d \in c.deps})

\* The project itself is listed, its version is its own affair.
parse_pom_xml(c) ==
    LET dependencies == {d \in c.deps : d.from # "self"}
    IN  IF ~c.parses
        THEN [ParseError EXCEPT !.components = {Component("maven", "maven-project", None)}]
        ELSE Parse(Listing("maven", c.deps),
                   UNION {Unpinned("maven", d) : d \in dependencies})

parse_dpkg_status(c) == Parse(Listing("deb", c.deps), {})
parse_apk_installed(c) == Parse(Listing("apk", c.deps), {})

PackageDatabases == {<<"var", "lib", "dpkg", "status">>, <<"lib", "apk", "db", "installed">>}

\* By its name, or by where it is.
Parsed(path, c) ==
    CASE Last(path) = "Cargo.lock" -> parse_cargo_lock(c)
      [] Last(path) = "Cargo.toml" -> parse_cargo_toml(c)
      [] Last(path) = "package-lock.json" -> parse_package_lock(c)
      [] Last(path) = "package.json" -> parse_package_json(c)
      [] Last(path) = "pnpm-lock.yaml" -> parse_pnpm_lock(c)
      [] Last(path) = "requirements.txt" -> parse_requirements(c)
      [] Last(path) = "go.mod" -> parse_go_mod(c)
      [] Last(path) = "go.sum" -> parse_go_sum(c)
      [] Last(path) = "pom.xml" -> parse_pom_xml(c)
      [] Last(path) = "packages.lock.json" -> parse_nuget_lock(c)
      [] OTHER -> IF IsSuffix(<<"var", "lib", "dpkg", "status">>, path) THEN parse_dpkg_status(c)
                  ELSE IF IsSuffix(<<"lib", "apk", "db", "installed">>, path)
                  THEN parse_apk_installed(c)
                  ELSE Nothing

Manifests ==
    {"Cargo.lock", "Cargo.toml", "package-lock.json", "package.json", "pnpm-lock.yaml",
     "requirements.txt", "go.mod", "go.sum", "pom.xml", "packages.lock.json"}

is_known_metadata_file(path) ==
    Last(path) \in Manifests \/ \E database \in PackageDatabases : IsSuffix(database, path)

-----------------------------------------------------------------------------
(***************************************************************************)
(* ScannerState: what has been found so far.                               *)
(***************************************************************************)
\* digests is the inventory that the filesystem digest covers: the bytes and the mode of
\* every file that was looked at.  Components carry the file they were found in first.
ScannerState ==
    [files_scanned |-> 0, digests |-> << >>, components |-> {}, requires |-> {},
     checksums |-> {}, crypto |-> {}, findings |-> {}, candidates |-> {}]

\* A function with one more argument, or another value for it.
With(f, x, y) == [z \in DOMAIN f \cup {x} |-> IF z = x THEN y ELSE f[z]]

\* A digest covers the kind of an entry, and the bytes and mode of a file.
Digested(kind, content) == [kind |-> kind, content |-> content]

KeyOf(c) == Component(c.kind, c.name, c.version)

add_components(found, path, components) ==
    found \cup {[kind |-> c.kind, name |-> c.name, version |-> c.version, evidence |-> path] :
                   c \in {c \in components : \A d \in found : KeyOf(d) # c}}

add_vex_candidate(category, path) ==
    [vulnerability |-> category, component |-> path, evidence |-> path,
     status |-> "under_investigation"]

Add(st, findings, candidates) ==
    [st EXCEPT !.findings = @ \cup findings, !.candidates = @ \cup candidates]

AddPolicies(st, policies, path) ==
    LET added == {add_sbom_policy_finding(policy, path) : policy \in policies}
    IN  Add(st, {a.finding : a \in added}, {a.candidate : a \in added})

-----------------------------------------------------------------------------
(***************************************************************************)
(* scan_file.                                                              *)
(***************************************************************************)
\* Names of documentation, and of keys by their extension; one of each stands for all.
is_documentation_file(path) == Last(path) \in {"README.md", "LICENSE"} \/ "docs" \in ToSet(Front(path))
IsKeyFile(path) == Last(path) = "server.key"

unstructured_text_severity(path) == IF is_documentation_file(path) THEN "low" ELSE "medium"

\* Keys weigh whatever else is in the text.  A complete PEM block is found in documentation
\* too; algorithms named in a text are never more than a hint.
scan_crypto_material(path, c, st) ==
    LET key == \/ "key-header" \in c.marks /\ ~is_documentation_file(path)
               \/ "key-block" \in c.marks
               \/ IsKeyFile(path)
        drift == "legacy-crypto" \in c.marks
        kinds == (IF key THEN {"key-material"} ELSE {})
                 \cup (IF drift THEN {"algorithm-or-protocol"} ELSE {})
    IN  [Add(st, (IF key THEN {Finding("private-key-material", "high", path)} ELSE {})
                 \cup (IF drift THEN {Finding("crypto-policy-drift",
                                              unstructured_text_severity(path), path)} ELSE {}),
             {})
            EXCEPT !.crypto = @ \cup {[kind |-> k, evidence |-> path] : k \in kinds}]

\* Remote execution weighs if the file can be run, or if the build runs it.
scan_suspicious_text(recipe, path, c, st) ==
    LET category == "suspicious-build-behavior"
        severity == IF c.exec \/ path \in recipe.command THEN "high" ELSE "medium"
    IN  IF "remote-execution" \notin c.marks THEN st
        ELSE Add(st, {Finding(category, severity, path)},
                 IF severity = "high" THEN {add_vex_candidate(category, path)} ELSE {})

scan_recipe_alignment(recipe, path, c, st) ==
    IF /\ Last(path) \in {"Dockerfile", "Containerfile"}
       /\ "from" \in c.marks
       /\ ~recipe.builder_sha256
    THEN Add(st, {Finding("metadata-misalignment", "medium", path)}, {})
    ELSE st

\* What a binary imports is a hint at most, and an entry of the CBOM.
analyze_binary(path, c, st) ==
    LET Hint(mark, category) ==
            IF mark \in c.marks THEN {Finding(category, "medium", path)} ELSE {}
    IN  [Add(st, Hint("legacy-crypto", "binary-crypto-policy-drift")
                 \cup Hint("network", "binary-network-capability"), {})
            EXCEPT !.crypto = @ \cup (IF "legacy-crypto" \in c.marks
                                      THEN {[kind |-> "binary-crypto-primitive", evidence |-> path]}
                                      ELSE {})]

inspect_binary(path, c, st) ==
    LET analyzed == analyze_binary(path, c, st)
    IN  IF ~c.exec THEN analyzed
        ELSE Add(analyzed, {Finding("ad-hoc-binary", "high", path)},
                 {add_vex_candidate("ad-hoc-binary", path)})

InspectText(recipe, path, c, st) ==
    LET parsed == Parsed(path, c)
        listed == [AddPolicies(st, parsed.policies, path) EXCEPT
                      !.components = add_components(@, path, parsed.components),
                      !.requires = @ \cup parsed.requires,
                      !.checksums = @ \cup parsed.checksums,
                      !.findings = @ \cup (IF parsed.error THEN {Finding("parse-error", "high", path)}
                                           ELSE {})]
        searched == scan_crypto_material(path, c, listed)
    IN  scan_recipe_alignment(recipe, path, c, scan_suspicious_text(recipe, path, c, searched))

\* A file of ordinary size: one read serves the digest and everything else.
InspectRead(recipe, path, c, st) ==
    LET digested == [st EXCEPT !.digests = With(@, path, Digested("file", c))]
    IN  IF c.binary THEN inspect_binary(path, c, digested)
        ELSE InspectText(recipe, path, c, digested)

\* A long file: its mode and its first bytes are all that is judged, the digest covers what
\* a second read finds.
InspectLong(path, exec, prefix_is_binary, c, st) ==
    LET category == IF exec THEN "ad-hoc-binary" ELSE "binary-scan-skipped"
        digested == [st EXCEPT !.digests = With(@, path, Digested("file", [c EXCEPT !.exec = exec]))]
        known == IF is_known_metadata_file(path)
                 THEN Add(digested, {Finding("metadata-file-too-large", "high", path)}, {})
                 ELSE digested
    IN  IF exec \/ prefix_is_binary
        THEN Add(known, {Finding(category, "high", path)}, {add_vex_candidate(category, path)})
        ELSE known

-----------------------------------------------------------------------------
(***************************************************************************)
(* compare_recipe_metadata, when all files have been read.                 *)
(***************************************************************************)
material_is_file(material) ==
    material.kind \in {"source-file", "lockfile", "manifest", "config-file"}
material_matches_path(material, path) == IsSuffix(material.name, path)

SameBytes(c, d) == [c EXCEPT !.exec = FALSE] = [d EXCEPT !.exec = FALSE]

\* The first path, in the order of the texts, that ends like the material's name.
ObservedMaterial(material, st) ==
    First(PathOrder, {p \in DOMAIN st.digests : material_matches_path(material, p)})

\* Mutant: any of the files that end like it may be the material.
MisalignedUnlessSome(material, st) ==
    ~\E p \in DOMAIN st.digests : /\ material_matches_path(material, p)
                                  /\ st.digests[p].kind = "file"
                                  /\ SameBytes(st.digests[p].content, material.content)

Misaligned(material, st) ==
    LET path == ObservedMaterial(material, st)
    IN  IF material_is_file(material)
        THEN \/ path = None
             \/ st.digests[path].kind # "file"
             \/ ~SameBytes(st.digests[path].content, material.content)
        ELSE ~\E c \in st.components : \/ <<c.name>> = material.name
                                       \/ IsSuffix(material.name, c.evidence)

\* Mutant: a scan that does not verify materials compares nothing.
compare_recipe_metadata_of_source(recipe, st, verify_declared_materials) ==
    IF ~verify_declared_materials THEN st
    ELSE Add(AddPolicies(st, {<<"sbom-missing-integrity", r[1]>> : r \in st.requires \ st.checksums},
                         <<"go.sum">>),
             {Finding("metadata-misalignment", IF material_is_file(m) THEN "high" ELSE "low", m.name) :
                 m \in {m \in recipe.materials : Misaligned(m, st)}},
             {})

compare_recipe_metadata(recipe, st, verify_declared_materials) ==
    LET missing == {<<"sbom-missing-integrity", r[1]>> : r \in st.requires \ st.checksums}
        Severity(material) == IF material_is_file(material) THEN "high" ELSE "low"
    IN  Add(AddPolicies(st, missing, <<"go.sum">>),
            IF verify_declared_materials
            THEN {Finding("metadata-misalignment", Severity(m), m.name) :
                     m \in {m \in recipe.materials : Misaligned(m, st)}}
            ELSE {},
            {})

\* Reports list the components in the order of their keys.
Positions(components) == Indices(Catalogue, {KeyOf(c) : c \in components})

FirstComponent(components) ==
    LET positions == Positions(components)
    IN  IF positions = {} THEN None
        ELSE CHOOSE c \in components : KeyOf(c) = Catalogue[Min(positions)]

-----------------------------------------------------------------------------
(***************************************************************************)
(* A tree at rest, such as an unpacked layer, of which `files` are met.    *)
(***************************************************************************)
Inspect(recipe, path, node, st) ==
    LET c == node.content
        met == [st EXCEPT !.files_scanned = @ + 1]
    IN  IF node.kind = "symlink"
        THEN [met EXCEPT !.digests = With(@, path, Digested("symlink", c))]
        ELSE IF c.long THEN InspectLong(path, c.exec, c.binary, c, met)
        ELSE InspectRead(recipe, path, c, met)

\* All that its files come to, one by one; a component that several have is listed for one.
InspectFiles(recipe, t, files) ==
    LET Found(p) == Inspect(recipe, p, t[p], ScannerState)
        keys == UNION {{KeyOf(c) : c \in Found(p).components} : p \in files}
    IN  [files_scanned |-> Cardinality(files),
         digests |-> [p \in files |-> Found(p).digests[p]],
         components |-> {CHOOSE c \in UNION {Found(p).components : p \in files} : KeyOf(c) = key :
                            key \in keys},
         requires |-> UNION {Found(p).requires : p \in files},
         checksums |-> UNION {Found(p).checksums : p \in files},
         crypto |-> UNION {Found(p).crypto : p \in files},
         findings |-> UNION {Found(p).findings : p \in files},
         candidates |-> UNION {Found(p).candidates : p \in files}]

InspectTree(recipe, t, files, verify_declared_materials) ==
    compare_recipe_metadata(recipe, InspectFiles(recipe, t, files), verify_declared_materials)
=============================================================================
