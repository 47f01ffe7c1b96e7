------------------------ MODULE LayerInspection_proofs ------------------------
(***************************************************************************)
(* What the verdict on a build rests on, for any requests, advisories,     *)
(* limits and orders: an edit of the source tree between its scan and the  *)
(* taking of the layer is not missed, no match of the source lookup is     *)
(* lost, "fixed" is said with proof only, declared files are those of the  *)
(* tree, nothing that a format forbids is in a file of an allowed build,   *)
(* each component of its layer was looked up, and what a scan judges is    *)
(* what its filesystem digest covers.                                      *)
(***************************************************************************)
EXTENDS LayerInspection, WellFoundedInduction, TLAPS

-----------------------------------------------------------------------------
(***************************************************************************)
(* What a scan has gathered, whatever is in the files.                     *)
(***************************************************************************)
Osv == "known-vulnerability"

ComponentKinds ==
    {"cargo", "cargo-declared", "npm", "npm-declared", "pypi", "go", "maven", "nuget", "deb", "apk"}

\* A value with exactly the fields of a scanner.
IsScanner(st) ==
    st \in [files_scanned : {st.files_scanned}, digests : {st.digests},
            components : {st.components}, requires : {st.requires}, checksums : {st.checksums},
            crypto : {st.crypto}, findings : {st.findings}, candidates : {st.candidates}]

IsAssessment(a) ==
    a \in [vulnerability : {a.vulnerability}, component : {a.component}, evidence : {a.evidence},
           status : {a.status}]

Forbids(findings) == \E f \in findings : f.severity = "high" /\ f.category # Osv

\* No finding of the files is taken for one of OSV, and whatever asks for an assessment is
\* a reason to deny.
Sound(st) ==
    /\ IsScanner(st)
    /\ \A f \in st.findings : f.category # Osv
    /\ \A a \in st.candidates : IsAssessment(a) /\ a.status = "under_investigation"
    /\ st.candidates # {} => Forbids(st.findings)
    /\ \A c \in st.components : c.kind \in ComponentKinds

LEMMA StartIsSound == Sound(ScannerState)
BY DEF Sound, IsScanner, ScannerState

\* What has been found stays found, and nothing joins what the manifests list.
Retains(st, new) ==
    /\ st.findings \subseteq new.findings
    /\ new.components = st.components
    /\ new.requires = st.requires /\ new.checksums = st.checksums

LEMMA AddIsSound ==
    ASSUME NEW st, Sound(st), NEW findings, NEW candidates,
           \A f \in findings : f.category # Osv,
           \A a \in candidates : IsAssessment(a) /\ a.status = "under_investigation",
           candidates # {} => Forbids(findings)
    PROVE  /\ Sound(Add(st, findings, candidates))
           /\ Add(st, findings, candidates).digests = st.digests
           /\ Retains(st, Add(st, findings, candidates))
           /\ Add(st, findings, candidates).findings = st.findings \cup findings
<1> DEFINE new == Add(st, findings, candidates)
<1>1. /\ IsScanner(new) /\ new.digests = st.digests /\ new.components = st.components
      /\ new.requires = st.requires /\ new.checksums = st.checksums
      /\ new.findings = st.findings \cup findings
      /\ new.candidates = st.candidates \cup candidates
  BY DEF Add, Sound, IsScanner
<1> HIDE DEF new
<1>2. new.candidates # {} => Forbids(new.findings)
  BY <1>1 DEF Sound, Forbids
<1>3. Sound(new)
  BY <1>1, <1>2 DEF Sound
<1> QED
  BY <1>1, <1>3 DEF new, Retains

\* What leaves findings, assessments and components alone.
LEMMA CryptoIsSound ==
    ASSUME NEW st, Sound(st), NEW added
    PROVE  /\ Sound([st EXCEPT !.crypto = @ \cup added])
           /\ [st EXCEPT !.crypto = @ \cup added].digests = st.digests
           /\ Retains(st, [st EXCEPT !.crypto = @ \cup added])
BY DEF Sound, IsScanner, Retains

LEMMA DigestIsSound ==
    ASSUME NEW st, Sound(st), NEW path, NEW content
    PROVE  LET new == [st EXCEPT !.digests = With(@, path, content)]
           IN  /\ Sound(new)
               /\ new.digests = With(st.digests, path, content)
               /\ Retains(st, new)
BY DEF Sound, IsScanner, Retains

LEMMA CountIsSound ==
    ASSUME NEW st, Sound(st)
    PROVE  /\ Sound([st EXCEPT !.files_scanned = @ + 1])
           /\ [st EXCEPT !.files_scanned = @ + 1].digests = st.digests
           /\ Retains(st, [st EXCEPT !.files_scanned = @ + 1])
BY DEF Sound, IsScanner, Retains

\* None of the dependency policies is taken for a match of OSV.
OfPolicies(policies) == \A policy \in policies : policy[1] # Osv

LEMMA PoliciesAreSound ==
    ASSUME NEW st, Sound(st), NEW policies, OfPolicies(policies), NEW path
    PROVE  /\ Sound(AddPolicies(st, policies, path))
           /\ AddPolicies(st, policies, path).digests = st.digests
           /\ Retains(st, AddPolicies(st, policies, path))
           /\ policies # {} => Forbids(AddPolicies(st, policies, path).findings)
<1> DEFINE added == {add_sbom_policy_finding(policy, path) : policy \in policies}
           findings == {a.finding : a \in added}
           candidates == {a.candidate : a \in added}
<1>1. \A f \in findings : f.category # Osv /\ f.severity = "high"
  BY DEF add_sbom_policy_finding, Finding, OfPolicies
<1>2. \A a \in candidates : IsAssessment(a) /\ a.status = "under_investigation"
  BY DEF add_sbom_policy_finding, IsAssessment
<1>3. /\ candidates # {} => policies # {}
      /\ policies # {} => findings # {}
  OBVIOUS
<1>4. AddPolicies(st, policies, path) = Add(st, findings, candidates)
  BY DEF AddPolicies
<1> HIDE DEF findings, candidates
<1>5. policies # {} => Forbids(findings)
  BY <1>1, <1>3 DEF Forbids
<1>6. /\ Sound(Add(st, findings, candidates))
      /\ Add(st, findings, candidates).digests = st.digests
      /\ Retains(st, Add(st, findings, candidates))
      /\ Add(st, findings, candidates).findings = st.findings \cup findings
  BY <1>1, <1>2, <1>3, <1>5, AddIsSound
<1>7. policies # {} => Forbids(Add(st, findings, candidates).findings)
  BY <1>5, <1>6 DEF Forbids
<1> QED
  BY <1>4, <1>6, <1>7

IsKey(component) ==
    /\ component.kind \in ComponentKinds
    /\ component = Component(component.kind, component.name, component.version)

\* What a parser makes of a file.
LEMMA ParsedIsKnown ==
    ASSUME NEW path, NEW c
    PROVE  /\ OfPolicies(Parsed(path, c).policies)
           /\ \A component \in Parsed(path, c).components : IsKey(component)
<1>1. \A condition, category, subject :
         category # Osv => OfPolicies(Flag(condition, category, subject))
  BY DEF OfPolicies, Flag
<1>2. \A kind, deps : kind \in ComponentKinds =>
         \A component \in Listing(kind, deps) : IsKey(component)
  BY DEF Listing, Component, IsKey
<1> DEFINE Known(parsed) ==
              /\ OfPolicies(parsed.policies)
              /\ \A component \in parsed.components : IsKey(component)
<1>3. /\ \A e, d : OfPolicies(Unpinned(e, d)) /\ OfPolicies(enforce_dependency_spec_policy(e, d))
      /\ \A d : OfPolicies(Unhashed(d)) /\ OfPolicies(enforce_npm_lock_policy(d))
                /\ OfPolicies(enforce_python_requirement_policy(d))
  <2>1. /\ \A e, d : OfPolicies(Unpinned(e, d))
        /\ \A d : OfPolicies(Unhashed(d)) /\ OfPolicies(enforce_dependency_source_policy(d))
    BY <1>1 DEF Unpinned, Unhashed, enforce_dependency_source_policy, Osv
  <2>2. \A d : /\ OfPolicies(Flag(d.script, "sbom-lifecycle-script", d.name))
               /\ OfPolicies(Flag(d.version = None \/ d.version.form \notin {"pinned", "marked"},
                                  "sbom-unpinned-dependency", d.name))
    BY <1>1 DEF Osv
  <2> QED
    BY <2>1, <2>2 DEF OfPolicies, enforce_dependency_spec_policy, enforce_npm_lock_policy,
       enforce_python_requirement_policy
<1>4. \A result, components, policies :
          /\ OfPolicies(policies)
          /\ \A component \in components : IsKey(component)
          /\ result \in {ParseError, Parse(components, policies)}
          => Known(result)
  BY DEF Parse, ParseError, Nothing, OfPolicies
<1>5. \A result, kind, deps, policies :
          /\ kind \in ComponentKinds /\ OfPolicies(policies)
          /\ result \in {ParseError, Parse(Listing(kind, deps), policies)}
          => Known(result)
  BY <1>2, <1>4
<1> HIDE DEF Known
<1>6. Known(parse_cargo_lock(c))
  BY <1>2, <1>3 DEF Known, parse_cargo_lock, Parse, Nothing, OfPolicies, ComponentKinds
<1>7. Known(parse_cargo_toml(c))
  BY <1>2, <1>3 DEF Known, parse_cargo_toml, Parse, ParseError, Nothing, OfPolicies, ComponentKinds
<1>8. Known(parse_package_lock(c))
  BY <1>2, <1>3 DEF Known, parse_package_lock, Parse, ParseError, Nothing, OfPolicies,
     ComponentKinds
<1>9. Known(parse_package_json(c))
  <2> DEFINE policies ==
                 Flag("lifecycle-script" \in c.marks, "sbom-lifecycle-script", "scripts")
                 \cup Flag("publish-script" \in c.marks, "sbom-suspicious-package-script", "scripts")
                 \cup UNION {enforce_dependency_spec_policy("npm", d) : d \in Read(c)}
  <2>1. /\ OfPolicies(Flag("lifecycle-script" \in c.marks, "sbom-lifecycle-script", "scripts"))
        /\ OfPolicies(Flag("publish-script" \in c.marks, "sbom-suspicious-package-script", "scripts"))
    BY <1>1 DEF Osv
  <2>2. OfPolicies(policies)
    BY <1>3, <2>1 DEF OfPolicies
  <2>3. parse_package_json(c) \in {ParseError, Parse(Listing("npm-declared", Read(c)), policies)}
    BY DEF parse_package_json
  <2> QED
    BY <1>5, <2>2, <2>3 DEF ComponentKinds
<1>10. Known(parse_pnpm_lock(c))
  <2> DEFINE importers == {d \in c.deps : d.hashed = None /\ d.version # None}
             packages == {d \in c.deps : d.hashed # None}
             policies == UNION ({enforce_dependency_spec_policy("npm", d) : d \in importers}
                                \cup {Unhashed(d) : d \in packages})
             components == Listing("npm-declared", importers) \cup Listing("npm", packages)
  <2>1. OfPolicies(policies)
    BY <1>3 DEF OfPolicies
  <2>2. \A component \in components : IsKey(component)
    BY <1>2 DEF ComponentKinds
  <2>3. parse_pnpm_lock(c) \in {ParseError, Parse(components, policies)}
    BY DEF parse_pnpm_lock
  <2> HIDE DEF policies, components
  <2> QED
    BY <1>4, <2>1, <2>2, <2>3
<1>11. Known(parse_requirements(c))
  BY <1>2, <1>3 DEF Known, parse_requirements, Parse, Nothing, OfPolicies, ComponentKinds
<1>12. Known(parse_go_mod(c))
  <2> DEFINE policies == Flag("replace" \in c.marks, "sbom-untrusted-source", "go.mod")
                         \cup UNION {Unpinned("go", d) : d \in c.deps}
  <2>1. OfPolicies(Flag("replace" \in c.marks, "sbom-untrusted-source", "go.mod"))
    BY <1>1 DEF Osv
  <2>2. OfPolicies(policies)
    BY <1>3, <2>1 DEF OfPolicies
  <2>3. /\ parse_go_mod(c).policies = policies
        /\ parse_go_mod(c).components = Listing("go", c.deps)
    BY DEF parse_go_mod, Parse, Nothing
  <2> HIDE DEF policies
  <2> QED
    BY <1>2, <2>2, <2>3 DEF Known, ComponentKinds
<1>13. Known(parse_go_sum(c))
  BY <1>2, <1>3 DEF Known, parse_go_sum, Parse, Nothing, OfPolicies
<1>14. Known(parse_nuget_lock(c))
  <2> DEFINE policies ==
                 Flag("no-targets" \in c.marks, "sbom-missing-integrity", "packages.lock.json")
                 \cup UNION {Unpinned("nuget", d) \cup Unhashed(d) : d \in c.deps}
  <2>1. OfPolicies(Flag("no-targets" \in c.marks, "sbom-missing-integrity", "packages.lock.json"))
    BY <1>1 DEF Osv
  <2>2. OfPolicies(policies)
    BY <1>3, <2>1 DEF OfPolicies
  <2>3. parse_nuget_lock(c) \in {ParseError, Parse(Listing("nuget", c.deps), policies)}
    BY DEF parse_nuget_lock
  <2> QED
    BY <1>5, <2>2, <2>3 DEF ComponentKinds
<1>15. Known(parse_pom_xml(c))
  <2>1. IsKey(Component("maven", "maven-project", None))
    BY DEF IsKey, Component, ComponentKinds
  <2> QED
    BY <1>2, <1>3, <2>1 DEF Known, parse_pom_xml, Parse, ParseError, Nothing, OfPolicies,
       ComponentKinds
<1>16. Known(parse_dpkg_status(c)) /\ Known(parse_apk_installed(c)) /\ Known(Nothing)
  BY <1>2 DEF Known, parse_dpkg_status, parse_apk_installed, Parse, Nothing, OfPolicies,
     ComponentKinds
<1>17. Known(Parsed(path, c))
  BY <1>6, <1>7, <1>8, <1>9, <1>10, <1>11, <1>12, <1>13, <1>14, <1>15, <1>16 DEF Parsed
<1> QED
  BY <1>17 DEF Known

-----------------------------------------------------------------------------
(***************************************************************************)
(* What speaks against a text, and what a scan makes of it.                *)
(***************************************************************************)
FileAt(path, c) == [path |-> path, content |-> c]

\* A checksum that a go.sum gives.
IsSum(path, c, sum) ==
    /\ Last(path) = "go.sum"
    /\ \E d \in c.deps : d.hashed /\ sum = <<d.name, d.version>>

LEMMA ParsedByName ==
    ASSUME NEW path, NEW c
    PROVE  /\ Last(path) = "Cargo.lock" => Parsed(path, c) = parse_cargo_lock(c)
           /\ Last(path) = "Cargo.toml" => Parsed(path, c) = parse_cargo_toml(c)
           /\ Last(path) = "package-lock.json" => Parsed(path, c) = parse_package_lock(c)
           /\ Last(path) = "package.json" => Parsed(path, c) = parse_package_json(c)
           /\ Last(path) = "pnpm-lock.yaml" => Parsed(path, c) = parse_pnpm_lock(c)
           /\ Last(path) = "requirements.txt" => Parsed(path, c) = parse_requirements(c)
           /\ Last(path) = "go.mod" => Parsed(path, c) = parse_go_mod(c)
           /\ Last(path) = "go.sum" => Parsed(path, c) = parse_go_sum(c)
           /\ Last(path) = "pom.xml" => Parsed(path, c) = parse_pom_xml(c)
           /\ Last(path) = "packages.lock.json" => Parsed(path, c) = parse_nuget_lock(c)
BY DEF Parsed

\* The parser of its format flags whatever must not be said of a dependency, or fails.
LEMMA LooseIsFlagged ==
    ASSUME NEW path, NEW c, NEW d \in c.deps, Last(path) \in Manifests, Loose(FileAt(path, c), d)
    PROVE  Parsed(path, c).policies # {} \/ Parsed(path, c).error = TRUE
<1> DEFINE name == Last(path)
           Ranged == d.version # None /\ d.version.form = "range"
           Floating == d.version # None /\ d.version.form = "floating"
           Plain == d.version # None /\ d.version.form = "plain"
           Foreign == d.from \in {"remote", "local"}
<1>1. d \in Read(c)
  BY DEF Loose, Read
<1>2. d.hashed = FALSE => <<"sbom-missing-integrity", d.name>> \in Unhashed(d)
  BY DEF Unhashed, Flag
<1>3. /\ Ranged => \A e \in {"cargo", "go", "npm", "maven", "nuget"} :
             <<"sbom-unpinned-dependency", d.name>> \in Unpinned(e, d)
      /\ Floating => \A e \in {"cargo", "go", "npm", "maven"} :
             <<"sbom-unpinned-dependency", d.name>> \in Unpinned(e, d)
      /\ Plain => <<"sbom-unpinned-dependency", d.name>> \in Unpinned("cargo", d)
  BY DEF Unpinned, Flag, IsExact, ExactForms
<1>4. Foreign => <<"sbom-untrusted-source", d.name>> \in enforce_dependency_source_policy(d)
  BY DEF enforce_dependency_source_policy, Flag
<1>5. CASE name = "Cargo.lock"
  <2>1. d.hashed = FALSE /\ IF c.parses THEN d.from = "registry" ELSE d.version # None
    BY <1>5 DEF Loose, Asked, FileAt
  <2>2. <<"sbom-missing-integrity", d.name>> \in parse_cargo_lock(c).policies
    BY <1>2, <2>1 DEF parse_cargo_lock, Parse, Nothing
  <2> QED
    BY <1>5, <2>2, ParsedByName
<1>6. CASE name = "Cargo.toml"
  <2>1. Ranged \/ Floating \/ Plain \/ Foreign
    BY <1>6 DEF Loose, Asked, FileAt
  <2>2. enforce_dependency_spec_policy("cargo", d) # {}
    BY <1>3, <1>4, <2>1 DEF enforce_dependency_spec_policy
  <2>3. parse_cargo_toml(c).error = TRUE \/ parse_cargo_toml(c).policies # {}
    BY <1>1, <2>2 DEF parse_cargo_toml, Parse, ParseError, Nothing
  <2> QED
    BY <1>6, <2>3, ParsedByName
<1>7. CASE name = "package-lock.json"
  <2>1. d.hashed = FALSE \/ Foreign \/ d.script = TRUE
    BY <1>7 DEF Loose, Asked, FileAt
  <2>2. d.script = TRUE => Flag(d.script, "sbom-lifecycle-script", d.name) # {}
    BY DEF Flag
  <2>3. enforce_npm_lock_policy(d) # {}
    BY <1>2, <1>4, <2>1, <2>2 DEF enforce_npm_lock_policy
  <2>4. parse_package_lock(c).error = TRUE \/ parse_package_lock(c).policies # {}
    BY <2>3 DEF parse_package_lock, Parse, ParseError, Nothing
  <2> QED
    BY <1>7, <2>4, ParsedByName
<1>8. CASE name = "package.json"
  <2>1. Ranged \/ Floating \/ Foreign
    BY <1>8 DEF Loose, Asked, FileAt
  <2>2. enforce_dependency_spec_policy("npm", d) # {}
    BY <1>3, <1>4, <2>1 DEF enforce_dependency_spec_policy
  <2>3. parse_package_json(c).error = TRUE \/ parse_package_json(c).policies # {}
    BY <1>1, <2>2 DEF parse_package_json, Parse, ParseError, Nothing
  <2> QED
    BY <1>8, <2>3, ParsedByName
<1>9. CASE name = "pnpm-lock.yaml"
  <2> DEFINE importers == {e \in c.deps : e.hashed = None /\ e.version # None}
             packages == {e \in c.deps : e.hashed # None}
             policies == UNION ({enforce_dependency_spec_policy("npm", e) : e \in importers}
                                \cup {Unhashed(e) : e \in packages})
  <2>1. \/ d.hashed = None /\ d.version # None /\ (Ranged \/ Floating \/ Foreign)
        \/ d.hashed = FALSE
    BY <1>9 DEF Loose, Asked, FileAt
  <2>2. ASSUME d.hashed = FALSE PROVE policies # {}
    <3>1. None # FALSE
      BY InspectionAssumption
    <3>2. d \in packages /\ Unhashed(d) # {}
      BY <1>2, <2>2, <3>1
    <3>3. Unhashed(d) \subseteq policies
      BY <3>2
    <3> QED
      BY <3>2, <3>3
  <2>3. ASSUME d.hashed = None, d.version # None, Ranged \/ Floating \/ Foreign
        PROVE  policies # {}
    <3>1. d \in importers
      BY <2>3
    <3>2. enforce_dependency_spec_policy("npm", d) # {}
      BY <1>3, <1>4, <2>3 DEF enforce_dependency_spec_policy
    <3>3. enforce_dependency_spec_policy("npm", d) \subseteq policies
      BY <3>1
    <3> QED
      BY <3>2, <3>3
  <2>4. policies # {}
    BY <2>1, <2>2, <2>3
  <2>5. parse_pnpm_lock(c) = ParseError \/ parse_pnpm_lock(c).policies = policies
    BY DEF parse_pnpm_lock, Parse, Nothing
  <2> HIDE DEF policies
  <2> QED
    BY <1>9, <2>4, <2>5, ParsedByName DEF ParseError, Nothing
<1>10. CASE name = "requirements.txt"
  <2>1. Ranged \/ Floating \/ Plain \/ d.hashed = FALSE \/ Foreign
    BY <1>10 DEF Loose, Asked, FileAt
  <2>2. enforce_python_requirement_policy(d) # {}
    BY <1>2, <1>4, <2>1 DEF enforce_python_requirement_policy, Flag
  <2>3. parse_requirements(c).policies =
           UNION {enforce_python_requirement_policy(e) : e \in Read(c)}
    BY DEF parse_requirements, Parse, Nothing
  <2> QED
    BY <1>1, <1>10, <2>2, <2>3, ParsedByName
<1>11. CASE name = "go.mod"
  <2>1. Ranged \/ Floating
    BY <1>11 DEF Loose, Asked, FileAt
  <2>2. Unpinned("go", d) # {}
    BY <1>3, <2>1
  <2>3. UNION {Unpinned("go", e) : e \in c.deps} \subseteq parse_go_mod(c).policies
    BY DEF parse_go_mod, Parse, Nothing
  <2> QED
    BY <1>11, <2>2, <2>3, ParsedByName
<1>12. CASE name = "go.sum"
  <2>1. d.hashed = FALSE
    BY <1>12 DEF Loose, Asked, FileAt
  <2>2. parse_go_sum(c).policies = UNION {Unhashed(e) : e \in c.deps}
    BY DEF parse_go_sum, Parse, Nothing
  <2> QED
    BY <1>2, <1>12, <2>1, <2>2, ParsedByName
<1>13. CASE name = "pom.xml"
  <2>1. d.from # "self" /\ (Ranged \/ Floating)
    BY <1>13 DEF Loose, Asked, FileAt
  <2>2. Unpinned("maven", d) # {}
    BY <1>3, <2>1
  <2>3. parse_pom_xml(c).error = TRUE \/ parse_pom_xml(c).policies # {}
    BY <2>1, <2>2 DEF parse_pom_xml, Parse, ParseError, Nothing
  <2> QED
    BY <1>13, <2>3, ParsedByName
<1>14. CASE name = "packages.lock.json"
  <2>1. Ranged \/ d.hashed = FALSE
    BY <1>14 DEF Loose, Asked, FileAt
  <2>2. Unpinned("nuget", d) \cup Unhashed(d) # {}
    BY <1>2, <1>3, <2>1
  <2>3. parse_nuget_lock(c).error = TRUE \/ parse_nuget_lock(c).policies # {}
    BY <2>2 DEF parse_nuget_lock, Parse, ParseError, Nothing
  <2> QED
    BY <1>14, <2>3, ParsedByName
<1> QED
  BY <1>5, <1>6, <1>7, <1>8, <1>9, <1>10, <1>11, <1>12, <1>13, <1>14 DEF Manifests

\* What go.mod requires is pinned, and what go.sum gives has a hash.
LEMMA GoIsGathered ==
    ASSUME NEW path, NEW c
    PROVE  /\ Last(path) = "go.mod" =>
                  \A d \in c.deps : \/ Parsed(path, c).policies # {}
                                    \/ <<d.name, d.version>> \in Parsed(path, c).requires
           /\ \A sum \in Parsed(path, c).checksums : IsSum(path, c, sum)
<1>1. ASSUME Last(path) = "go.mod", NEW d \in c.deps
      PROVE  \/ Parsed(path, c).policies # {}
             \/ <<d.name, d.version>> \in Parsed(path, c).requires
  <2>1. /\ UNION {Unpinned("go", e) : e \in c.deps} \subseteq parse_go_mod(c).policies
        /\ parse_go_mod(c).requires =
               {<<e.name, e.version>> : e \in {e \in c.deps : IsExact("go", e)}}
    BY DEF parse_go_mod, Parse, Nothing
  <2>2. ~IsExact("go", d) => <<"sbom-unpinned-dependency", d.name>> \in Unpinned("go", d)
    BY DEF Unpinned, Flag
  <2> QED
    BY <1>1, <2>1, <2>2, ParsedByName
<1>2. /\ parse_cargo_lock(c).checksums = {} /\ parse_cargo_toml(c).checksums = {}
      /\ parse_package_lock(c).checksums = {} /\ parse_package_json(c).checksums = {}
      /\ parse_pnpm_lock(c).checksums = {} /\ parse_requirements(c).checksums = {}
      /\ parse_go_mod(c).checksums = {} /\ parse_pom_xml(c).checksums = {}
      /\ parse_nuget_lock(c).checksums = {}
      /\ parse_dpkg_status(c).checksums = {} /\ parse_apk_installed(c).checksums = {}
      /\ Nothing.checksums = {}
  <2>1. /\ \A components, policies : Parse(components, policies).checksums = {}
        /\ ParseError.checksums = {} /\ Nothing.checksums = {}
    BY DEF Parse, ParseError, Nothing
  <2>2. /\ parse_go_mod(c).checksums = {} /\ parse_pom_xml(c).checksums = {}
    BY DEF parse_go_mod, parse_pom_xml, Parse, ParseError, Nothing
  <2>3. /\ parse_cargo_lock(c).checksums = {} /\ parse_cargo_toml(c).checksums = {}
        /\ parse_package_lock(c).checksums = {} /\ parse_package_json(c).checksums = {}
        /\ parse_pnpm_lock(c).checksums = {} /\ parse_requirements(c).checksums = {}
        /\ parse_nuget_lock(c).checksums = {}
        /\ parse_dpkg_status(c).checksums = {} /\ parse_apk_installed(c).checksums = {}
    BY <2>1 DEF parse_cargo_lock, parse_cargo_toml, parse_package_lock, parse_package_json,
       parse_pnpm_lock, parse_requirements, parse_nuget_lock, parse_dpkg_status,
       parse_apk_installed
  <2> QED
    BY <2>1, <2>2, <2>3
<1>3. parse_go_sum(c).checksums = {<<d.name, d.version>> : d \in {d \in c.deps : d.hashed}}
  BY DEF parse_go_sum, Parse, Nothing
<1>4. Last(path) # "go.sum" => Parsed(path, c).checksums = {}
  BY <1>2 DEF Parsed
<1>5. \A sum \in Parsed(path, c).checksums : IsSum(path, c, sum)
  BY <1>3, <1>4, ParsedByName DEF IsSum
<1> QED
  BY <1>1, <1>5

-----------------------------------------------------------------------------
(***************************************************************************)
(* What scan_file adds for one file.                                       *)
(***************************************************************************)
\* What a text declares joins what has been found.
Reads(st, new, path, c) ==
    /\ st.findings \subseteq new.findings
    /\ new.components = add_components(st.components, path, Parsed(path, c).components)
    /\ new.requires = st.requires \cup Parsed(path, c).requires
    /\ new.checksums = st.checksums \cup Parsed(path, c).checksums

HasKey(path, c) ==
    \/ "key-header" \in c.marks /\ ~is_documentation_file(path)
    \/ "key-block" \in c.marks
    \/ IsKeyFile(path)

TextForbids(path, c) ==
    \/ Parsed(path, c).policies # {} \/ Parsed(path, c).error = TRUE
    \/ HasKey(path, c)
    \/ c.exec = TRUE /\ "remote-execution" \in c.marks

LEMMA TextIsSound ==
    ASSUME NEW st, Sound(st), NEW recipe, NEW path, NEW c
    PROVE  LET new == InspectText(recipe, path, c, st)
           IN  /\ Sound(new)
               /\ new.digests = st.digests
               /\ Reads(st, new, path, c)
               /\ TextForbids(path, c) => Forbids(new.findings)
<1> DEFINE parsed == Parsed(path, c)
           policed == AddPolicies(st, parsed.policies, path)
           errors == IF parsed.error THEN {Finding("parse-error", "high", path)} ELSE {}
           listed == [policed EXCEPT
                         !.components = add_components(@, path, parsed.components),
                         !.requires = @ \cup parsed.requires,
                         !.checksums = @ \cup parsed.checksums,
                         !.findings = @ \cup errors]
           searched == scan_crypto_material(path, c, listed)
           suspected == scan_suspicious_text(recipe, path, c, searched)
           aligned == scan_recipe_alignment(recipe, path, c, suspected)
<1>1. /\ Sound(policed) /\ policed.digests = st.digests /\ Retains(st, policed)
      /\ parsed.policies # {} => Forbids(policed.findings)
  BY ParsedIsKnown, PoliciesAreSound
<1>2. /\ Sound(listed) /\ listed.digests = st.digests
      /\ Reads(st, listed, path, c)
      /\ parsed.policies # {} \/ parsed.error = TRUE => Forbids(listed.findings)
  <2>1. \A e \in errors : e.category # Osv
    BY DEF Finding, Osv
  <2>2. \A d \in add_components(policed.components, path, parsed.components) :
           d.kind \in ComponentKinds
    BY <1>1, ParsedIsKnown DEF Sound, add_components, IsKey
  <2>3. parsed.error = TRUE => Forbids(errors)
    BY DEF Forbids, Finding, Osv
  <2> HIDE DEF policed, parsed, errors
  <2>4. /\ IsScanner(listed) /\ listed.digests = policed.digests
        /\ listed.findings = policed.findings \cup errors
        /\ listed.candidates = policed.candidates
        /\ listed.requires = policed.requires \cup parsed.requires
        /\ listed.checksums = policed.checksums \cup parsed.checksums
        /\ listed.components = add_components(policed.components, path, parsed.components)
    BY <1>1 DEF Sound, IsScanner
  <2> HIDE DEF listed
  <2>5. listed.candidates # {} => Forbids(listed.findings)
    BY <1>1, <2>4 DEF Sound, Forbids
  <2>6. Sound(listed)
    BY <1>1, <2>1, <2>2, <2>4, <2>5 DEF Sound
  <2>7. Reads(st, listed, path, c)
    BY <1>1, <2>4 DEF Reads, Retains, parsed
  <2>8. parsed.policies # {} \/ parsed.error = TRUE => Forbids(listed.findings)
    BY <1>1, <2>3, <2>4 DEF Forbids
  <2> QED
    BY <1>1, <2>4, <2>6, <2>7, <2>8
<1> HIDE DEF listed
<1>3. /\ Sound(searched) /\ searched.digests = listed.digests /\ Retains(listed, searched)
      /\ HasKey(path, c) => Forbids(searched.findings)
  <2> DEFINE key == \/ "key-header" \in c.marks /\ ~is_documentation_file(path)
                    \/ "key-block" \in c.marks
                    \/ IsKeyFile(path)
             drift == "legacy-crypto" \in c.marks
             kinds == (IF key THEN {"key-material"} ELSE {})
                      \cup (IF drift THEN {"algorithm-or-protocol"} ELSE {})
             findings == (IF key THEN {Finding("private-key-material", "high", path)} ELSE {})
                         \cup (IF drift THEN {Finding("crypto-policy-drift",
                                                      unstructured_text_severity(path), path)} ELSE {})
             found == Add(listed, findings, {})
  <2>1. \A f \in findings : f.category # Osv
    BY DEF Finding, Osv
  <2>2. searched = [found EXCEPT !.crypto = @ \cup {[kind |-> k, evidence |-> path] : k \in kinds}]
    BY DEF scan_crypto_material
  <2>3. HasKey(path, c) <=> key
    BY DEF HasKey
  <2> HIDE DEF key, searched
  <2>4. ASSUME key PROVE Forbids(findings)
    <3>1. Finding("private-key-material", "high", path) \in findings
      BY <2>4
    <3> QED
      BY <3>1 DEF Forbids, Finding, Osv
  <2> HIDE DEF findings, kinds
  <2>5. /\ Sound(found) /\ found.digests = listed.digests /\ Retains(listed, found)
        /\ found.findings = listed.findings \cup findings
    BY <1>2, <2>1, AddIsSound
  <2> HIDE DEF found
  <2>6. Sound(searched) /\ searched.digests = found.digests /\ Retains(found, searched)
    BY <2>2, <2>5, CryptoIsSound
  <2>7. key => Forbids(searched.findings)
    BY <2>4, <2>5, <2>6 DEF Forbids, Retains
  <2> QED
    BY <2>3, <2>5, <2>6, <2>7 DEF Retains
<1> HIDE DEF searched
<1>4. /\ Sound(suspected) /\ suspected.digests = searched.digests
      /\ Retains(searched, suspected)
      /\ c.exec = TRUE /\ "remote-execution" \in c.marks => Forbids(suspected.findings)
  <2> DEFINE category == "suspicious-build-behavior"
             severity == IF c.exec \/ path \in recipe.command THEN "high" ELSE "medium"
             findings == {Finding(category, severity, path)}
             candidates == IF severity = "high" THEN {add_vex_candidate(category, path)} ELSE {}
  <2>1. /\ \A f \in findings : f.category # Osv
        /\ \A a \in candidates : IsAssessment(a) /\ a.status = "under_investigation"
        /\ candidates # {} => Forbids(findings)
    BY DEF Finding, Osv, Forbids, IsAssessment, add_vex_candidate
  <2>2. suspected = IF "remote-execution" \notin c.marks THEN searched
                    ELSE Add(searched, findings, candidates)
    BY DEF scan_suspicious_text
  <2>3. c.exec = TRUE => Forbids(findings)
    BY DEF Forbids, Finding, Osv
  <2> HIDE DEF findings, candidates, suspected
  <2>4. /\ Sound(Add(searched, findings, candidates))
        /\ Add(searched, findings, candidates).digests = searched.digests
        /\ Retains(searched, Add(searched, findings, candidates))
        /\ Add(searched, findings, candidates).findings = searched.findings \cup findings
    BY <1>3, <2>1, AddIsSound
  <2>5. c.exec = TRUE => Forbids(Add(searched, findings, candidates).findings)
    BY <2>3, <2>4 DEF Forbids
  <2> QED
    BY <1>3, <2>2, <2>4, <2>5 DEF Retains
<1> HIDE DEF suspected
<1>5. Sound(aligned) /\ aligned.digests = suspected.digests /\ Retains(suspected, aligned)
  <2> DEFINE findings == {Finding("metadata-misalignment", "medium", path)}
  <2>1. \A f \in findings : f.category # Osv
    BY DEF Finding, Osv
  <2>2. aligned \in {suspected, Add(suspected, findings, {})}
    BY DEF scan_recipe_alignment
  <2> HIDE DEF findings, aligned
  <2> QED
    BY <1>4, <2>1, <2>2, AddIsSound DEF Retains
<1>6. aligned = InspectText(recipe, path, c, st)
  BY DEF InspectText, listed, searched, suspected
<1> HIDE DEF aligned, parsed
<1>7. Reads(st, aligned, path, c)
  BY <1>2, <1>3, <1>4, <1>5 DEF Reads, Retains
<1>8. TextForbids(path, c) => Forbids(aligned.findings)
  BY <1>2, <1>3, <1>4, <1>5 DEF TextForbids, Forbids, Retains, parsed
<1> QED
  BY <1>2, <1>3, <1>4, <1>5, <1>6, <1>7, <1>8

\* A text that forbids nothing is clean.
LEMMA TextIsClean ==
    ASSUME NEW path, NEW c, IsText(c), ~TextForbids(path, c)
    PROVE  Clean(FileAt(path, c))
<1>1. /\ Parsed(path, c).policies = {} /\ ~(Parsed(path, c).error = TRUE)
      /\ ~HasKey(path, c)
  BY DEF TextForbids
<1>2. ASSUME NEW mark \in c.marks, mark \in MarksAgainst(Last(path)) PROVE FALSE
  <2>1. mark # "key-block"
    BY <1>1, <1>2 DEF HasKey
  <2>2. CASE Last(path) = "package.json"
    <3>1. mark \in {"lifecycle-script", "publish-script"}
      BY <1>2, <2>1, <2>2 DEF MarksAgainst
    <3>2. parse_package_json(c).policies = {} /\ ~(parse_package_json(c).error = TRUE)
      BY <1>1, <2>2, ParsedByName
    <3>3. Flag("lifecycle-script" \in c.marks, "sbom-lifecycle-script", "scripts")
             \cup Flag("publish-script" \in c.marks, "sbom-suspicious-package-script", "scripts")
          = {}
      BY <3>2 DEF parse_package_json, Parse, ParseError, Nothing
    <3> QED
      BY <3>1, <3>3 DEF Flag
  <2>3. CASE Last(path) = "go.mod"
    <3>1. mark = "replace"
      BY <1>2, <2>1, <2>3 DEF MarksAgainst
    <3>2. parse_go_mod(c).policies = {}
      BY <1>1, <2>3, ParsedByName
    <3>3. Flag("replace" \in c.marks, "sbom-untrusted-source", "go.mod") = {}
      BY <3>2 DEF parse_go_mod, Parse, Nothing
    <3> QED
      BY <3>1, <3>3 DEF Flag
  <2>4. CASE Last(path) = "packages.lock.json"
    <3>1. mark = "no-targets"
      BY <1>2, <2>1, <2>4 DEF MarksAgainst
    <3>2. parse_nuget_lock(c).policies = {} /\ ~(parse_nuget_lock(c).error = TRUE)
      BY <1>1, <2>4, ParsedByName
    <3>3. Flag("no-targets" \in c.marks, "sbom-missing-integrity", "packages.lock.json") = {}
      BY <3>2 DEF parse_nuget_lock, Parse, ParseError, Nothing
    <3> QED
      BY <3>1, <3>3 DEF Flag
  <2> QED
    BY <1>2, <2>1, <2>2, <2>3, <2>4 DEF MarksAgainst
<1>3. Last(path) \in Manifests => \A d \in c.deps : ~Loose(FileAt(path, c), d)
  BY <1>1, LooseIsFlagged
<1>4. c.exec => "remote-execution" \notin c.marks
  BY DEF TextForbids
<1>5. ("key-header" \in c.marks => is_documentation_file(path)) /\ ~IsKeyFile(path)
  BY <1>1 DEF HasKey
<1> QED
  BY <1>2, <1>3, <1>4, <1>5 DEF Clean, FileAt, IsText

\* What has been found stays found; a checksum that joins is one of the file.
Grows(st, new) ==
    /\ st.findings \subseteq new.findings
    /\ st.components \subseteq new.components
    /\ st.requires \subseteq new.requires

SumsOf(st, new, path, c) == \A sum \in new.checksums : sum \in st.checksums \/ IsSum(path, c, sum)

\* The inventory has the components of a file, and if nothing forbids, the file is clean, and
\* its requirements wait for their checksums.
Lists(components, path, c) ==
    IsText(c) => \A k \in Parsed(path, c).components : \E d \in components : KeyOf(d) = k

Vetted(st, path, c) ==
    /\ Lists(st.components, path, c)
    /\ \/ Forbids(st.findings)
       \/ /\ Clean(FileAt(path, c))
          /\ IsText(c) /\ Last(path) = "go.mod" =>
                 \A d \in c.deps : <<d.name, d.version>> \in st.requires

LEMMA VettedStays ==
    ASSUME NEW st, NEW new, Grows(st, new), NEW path, NEW c, Vetted(st, path, c)
    PROVE  Vetted(new, path, c)
<1>1. Lists(new.components, path, c)
  BY DEF Grows, Vetted, Lists
<1>2. Forbids(st.findings) => Forbids(new.findings)
  BY DEF Grows, Forbids
<1> QED
  BY <1>1, <1>2 DEF Grows, Vetted

LEMMA TextIsVetted ==
    ASSUME NEW st, NEW new, NEW path, NEW c,
           Reads(st, new, path, c), TextForbids(path, c) => Forbids(new.findings)
    PROVE  Grows(st, new) /\ SumsOf(st, new, path, c) /\ (IsText(c) => Vetted(new, path, c))
<1> DEFINE parsed == Parsed(path, c)
<1>1. Grows(st, new)
  BY DEF Reads, Grows, add_components
<1>2. SumsOf(st, new, path, c)
  BY GoIsGathered DEF Reads, SumsOf
<1>3. \A k \in parsed.components : \E d \in new.components : KeyOf(d) = k
  <2> SUFFICES ASSUME NEW k \in parsed.components PROVE \E d \in new.components : KeyOf(d) = k
    OBVIOUS
  <2>1. new.components = add_components(st.components, path, parsed.components)
    BY DEF Reads
  <2>2. CASE \E d \in st.components : KeyOf(d) = k
    BY <2>1, <2>2 DEF add_components
  <2>3. CASE \A d \in st.components : KeyOf(d) # k
    <3> DEFINE d == [kind |-> k.kind, name |-> k.name, version |-> k.version, evidence |-> path]
    <3>1. d \in new.components
      BY <2>1, <2>3 DEF add_components
    <3>2. KeyOf(d) = k
      BY ParsedIsKnown DEF KeyOf, IsKey, Component
    <3> QED
      BY <3>1, <3>2
  <2> QED
    BY <2>2, <2>3
<1>4. ASSUME IsText(c), ~Forbids(new.findings), Last(path) = "go.mod", NEW d \in c.deps
      PROVE  <<d.name, d.version>> \in new.requires
  <2>1. parsed.policies = {}
    BY <1>4 DEF TextForbids
  <2> QED
    BY <1>4, <2>1, GoIsGathered DEF Reads
<1>5. IsText(c) => Vetted(new, path, c)
  BY <1>3, <1>4, TextIsClean DEF Vetted, Lists
<1> QED
  BY <1>1, <1>2, <1>5

LEMMA BinaryIsSound ==
    ASSUME NEW st, Sound(st), NEW path, NEW c
    PROVE  LET new == inspect_binary(path, c, st)
           IN  /\ Sound(new)
               /\ new.digests = st.digests
               /\ Retains(st, new)
               /\ c.exec = TRUE => Forbids(new.findings)
<1> DEFINE Hint(mark, category) ==
               IF mark \in c.marks THEN {Finding(category, "medium", path)} ELSE {}
           hints == Hint("legacy-crypto", "binary-crypto-policy-drift")
                    \cup Hint("network", "binary-network-capability")
           hinted == Add(st, hints, {})
           crypto == IF "legacy-crypto" \in c.marks
                     THEN {[kind |-> "binary-crypto-primitive", evidence |-> path]} ELSE {}
           analyzed == analyze_binary(path, c, st)
           findings == {Finding("ad-hoc-binary", "high", path)}
           candidates == {add_vex_candidate("ad-hoc-binary", path)}
           judged == Add(analyzed, findings, candidates)
<1>1. \A f \in hints : f.category # Osv
  BY DEF Finding, Osv
<1>2. analyzed = [hinted EXCEPT !.crypto = @ \cup crypto]
  BY DEF analyze_binary
<1> HIDE DEF hints, crypto, analyzed
<1>3. Sound(hinted) /\ hinted.digests = st.digests /\ Retains(st, hinted)
  BY <1>1, AddIsSound
<1> HIDE DEF hinted
<1>4. Sound(analyzed) /\ analyzed.digests = hinted.digests /\ Retains(hinted, analyzed)
  BY <1>2, <1>3, CryptoIsSound
<1>5. /\ \A f \in findings : f.category # Osv
      /\ \A a \in candidates : IsAssessment(a) /\ a.status = "under_investigation"
      /\ Forbids(findings)
  BY DEF Finding, Osv, Forbids, IsAssessment, add_vex_candidate
<1>6. inspect_binary(path, c, st) = IF ~c.exec THEN analyzed ELSE judged
  BY DEF inspect_binary, analyzed
<1> HIDE DEF findings, candidates
<1>7. /\ Sound(judged) /\ judged.digests = analyzed.digests /\ Retains(analyzed, judged)
      /\ judged.findings = analyzed.findings \cup findings
  BY <1>4, <1>5, AddIsSound
<1> HIDE DEF judged
<1>8. Forbids(judged.findings)
  BY <1>5, <1>7 DEF Forbids
<1> QED
  BY <1>3, <1>4, <1>6, <1>7, <1>8 DEF Retains

LEMMA ReadIsSound ==
    ASSUME NEW st, Sound(st), NEW recipe, NEW path, NEW c
    PROVE  LET new == InspectRead(recipe, path, c, st)
           IN  /\ Sound(new)
               /\ new.digests = With(st.digests, path, Digested("file", c))
               /\ Grows(st, new) /\ SumsOf(st, new, path, c)
               /\ ~c.long => Vetted(new, path, c)
<1> DEFINE digested == [st EXCEPT !.digests = With(@, path, Digested("file", c))]
           binary == inspect_binary(path, c, digested)
           text == InspectText(recipe, path, c, digested)
<1>1. /\ Sound(digested) /\ digested.digests = With(st.digests, path, Digested("file", c))
      /\ Retains(st, digested)
  BY DigestIsSound
<1>2. InspectRead(recipe, path, c, st) = IF c.binary THEN binary ELSE text
  BY DEF InspectRead
<1> HIDE DEF digested
<1>3. /\ Sound(binary) /\ binary.digests = digested.digests /\ Retains(digested, binary)
      /\ c.exec = TRUE => Forbids(binary.findings)
  BY <1>1, BinaryIsSound
<1>4. /\ Sound(text) /\ text.digests = digested.digests /\ Reads(digested, text, path, c)
      /\ TextForbids(path, c) => Forbids(text.findings)
  BY <1>1, TextIsSound
<1> HIDE DEF binary, text
<1>5. CASE c.binary
  <2>1. Grows(st, binary) /\ SumsOf(st, binary, path, c)
    BY <1>1, <1>3 DEF Retains, Grows, SumsOf
  <2>2. ~c.long => Vetted(binary, path, c)
    BY <1>3, <1>5 DEF Vetted, Lists, Clean, FileAt, IsText
  <2> QED
    BY <1>1, <1>2, <1>3, <1>5, <2>1, <2>2
<1>6. CASE ~c.binary
  <2>1. Grows(digested, text) /\ SumsOf(digested, text, path, c)
    BY <1>4, TextIsVetted
  <2>2. Grows(st, text) /\ SumsOf(st, text, path, c)
    BY <1>1, <2>1 DEF Retains, Grows, SumsOf
  <2>3. ~c.long => Vetted(text, path, c)
    BY <1>4, <1>6, TextIsVetted DEF IsText
  <2> QED
    BY <1>1, <1>2, <1>4, <1>6, <2>2, <2>3
<1> QED
  BY <1>5, <1>6

LEMMA LongIsSound ==
    ASSUME NEW st, Sound(st), NEW path, NEW exec, NEW binary, NEW c
    PROVE  LET new == InspectLong(path, exec, binary, c, st)
           IN  /\ Sound(new)
               /\ new.digests = With(st.digests, path, Digested("file", [c EXCEPT !.exec = exec]))
               /\ Retains(st, new)
               /\ c.long /\ c.exec = exec /\ c.binary = binary => Vetted(new, path, c)
<1> DEFINE category == IF exec THEN "ad-hoc-binary" ELSE "binary-scan-skipped"
           content == Digested("file", [c EXCEPT !.exec = exec])
           digested == [st EXCEPT !.digests = With(@, path, content)]
           large == {Finding("metadata-file-too-large", "high", path)}
           enlarged == Add(digested, large, {})
           known == IF is_known_metadata_file(path) THEN enlarged ELSE digested
           findings == {Finding(category, "high", path)}
           candidates == {add_vex_candidate(category, path)}
           judged == Add(known, findings, candidates)
           new == InspectLong(path, exec, binary, c, st)
<1>1. /\ Sound(digested) /\ digested.digests = With(st.digests, path, content)
      /\ Retains(st, digested)
  BY DigestIsSound
<1>2. /\ \A f \in findings \cup large : f.category # Osv
      /\ \A a \in candidates : IsAssessment(a) /\ a.status = "under_investigation"
      /\ Forbids(findings) /\ Forbids(large)
  BY DEF Finding, Osv, Forbids, IsAssessment, add_vex_candidate
<1>3. new = IF exec \/ binary THEN judged ELSE known
  BY DEF InspectLong
<1> HIDE DEF digested, large, findings, candidates, new
<1>4. /\ Sound(enlarged) /\ enlarged.digests = digested.digests /\ Retains(digested, enlarged)
      /\ enlarged.findings = digested.findings \cup large
  BY <1>1, <1>2, AddIsSound
<1> HIDE DEF enlarged
<1>5. /\ Sound(known) /\ known.digests = digested.digests /\ Retains(digested, known)
      /\ is_known_metadata_file(path) => Forbids(known.findings)
  BY <1>1, <1>2, <1>4 DEF Forbids, Retains
<1> HIDE DEF known
<1>6. /\ Sound(judged) /\ judged.digests = known.digests /\ Retains(known, judged)
      /\ judged.findings = known.findings \cup findings
  BY <1>2, <1>5, AddIsSound
<1> HIDE DEF judged
<1>7. /\ Forbids(judged.findings)
      /\ is_known_metadata_file(path) => Forbids(new.findings)
  BY <1>2, <1>3, <1>5, <1>6 DEF Forbids
<1>8. Sound(new) /\ new.digests = digested.digests /\ Retains(st, new)
  BY <1>1, <1>3, <1>5, <1>6 DEF Retains
<1>9. c.long /\ c.exec = exec /\ c.binary = binary => Vetted(new, path, c)
  BY <1>3, <1>7 DEF Vetted, Lists, Clean, FileAt, IsText
<1> QED
  BY <1>1, <1>8, <1>9 DEF new

\* A file or symlink of a tree at rest.
LEMMA InspectIsSound ==
    ASSUME NEW st, Sound(st), NEW recipe, NEW path, NEW node
    PROVE  LET new == Inspect(recipe, path, node, st)
           IN  /\ Sound(new)
               /\ node.kind # "symlink" => /\ SumsOf(st, new, path, node.content)
                                           /\ Vetted(new, path, node.content)
               /\ node.kind = "symlink" => new.checksums = st.checksums
<1> DEFINE c == node.content
           met == [st EXCEPT !.files_scanned = @ + 1]
           symlink == [met EXCEPT !.digests = With(@, path, Digested("symlink", c))]
           long == InspectLong(path, c.exec, c.binary, c, met)
           read == InspectRead(recipe, path, c, met)
<1>1. Sound(met) /\ Retains(st, met)
  BY CountIsSound
<1>2. Inspect(recipe, path, node, st) = IF node.kind = "symlink" THEN symlink
                                        ELSE IF c.long THEN long ELSE read
  BY DEF Inspect
<1> HIDE DEF met
<1>3. Sound(symlink) /\ symlink.checksums = met.checksums
  BY <1>1, DigestIsSound DEF Retains
<1>4. /\ Sound(long) /\ Retains(met, long)
      /\ c.long => Vetted(long, path, c)
  BY <1>1, LongIsSound
<1>5. /\ Sound(read) /\ SumsOf(met, read, path, c)
      /\ ~c.long => Vetted(read, path, c)
  BY <1>1, ReadIsSound
<1> HIDE DEF symlink, long, read
<1>6. SumsOf(st, long, path, c) /\ SumsOf(st, read, path, c)
  BY <1>1, <1>4, <1>5 DEF Retains, SumsOf
<1> QED
  BY <1>1, <1>2, <1>3, <1>4, <1>5, <1>6 DEF Retains

-----------------------------------------------------------------------------
(***************************************************************************)
(* compare_recipe_metadata.                                                *)
(***************************************************************************)
\* The first element of a sequence that is in a set.
LEMMA LeastIsFirst ==
    ASSUME NEW S, S \subseteq Nat, S # {}
    PROVE  Min(S) \in S /\ \A n \in S : Min(S) <= n
<1> DEFINE Below == OpToRel(<, Nat)
<1>1. PICK n \in S : \A m \in S : ~(<<m, n>> \in Below)
  <2>1. IsWellFoundedOn(Below, Nat)
    BY NatLessThanWellFounded
  <2> HIDE DEF Below
  <2> QED
    BY <2>1, WFMin
<1>2. \A m \in S : n <= m
  <2> SUFFICES ASSUME NEW m \in S PROVE n <= m
    OBVIOUS
  <2>1. ~(<<m, n>> \in Below) /\ m \in Nat /\ n \in Nat
    BY <1>1
  <2> QED
    BY <2>1 DEF OpToRel
<1> QED
  BY <1>2 DEF Min

LEMMA FirstIsInOrder ==
    ASSUME NEW s \in {Catalogue, PathOrder}, NEW elements, First(s, elements) # None
    PROVE  \E i \in DOMAIN s : /\ s[i] = First(s, elements)
                               /\ s[i] \in elements
                               /\ \A j \in 1..(i - 1) : s[j] \notin elements
<1> DEFINE indices == Indices(s, elements)
<1>1. Len(s) \in Nat /\ DOMAIN s = 1..Len(s)
  BY OrderAssumption
<1>2. indices \subseteq Nat /\ indices # {} /\ First(s, elements) = s[Min(indices)]
  BY <1>1 DEF First, Indices
<1>3. Min(indices) \in indices /\ \A n \in indices : Min(indices) <= n
  BY <1>2, LeastIsFirst
<1>4. PICK i \in indices : i = Min(indices)
  BY <1>3
<1>5. i \in 1..Len(s) /\ s[i] \in elements
  BY <1>1 DEF Indices
<1>6. ASSUME NEW j \in 1..(i - 1) PROVE s[j] \notin elements
  <2>1. j \in 1..Len(s) /\ ~(i <= j)
    BY <1>1, <1>5
  <2>2. j \notin indices
    BY <1>3, <1>4, <2>1
  <2> QED
    BY <1>1, <2>1, <2>2 DEF Indices
<1> QED
  BY <1>1, <1>2, <1>4, <1>5, <1>6

LEMMA AlignedFits ==
    ASSUME NEW recipe, NEW st,
           \A m \in {m \in recipe.materials : material_is_file(m)} : ~Misaligned(m, st)
    PROVE  MaterialsFit(recipe, st.digests)
<1> SUFFICES ASSUME NEW m \in recipe.materials, material_is_file(m)
             PROVE  \E i \in DOMAIN PathOrder :
                       /\ PathOrder[i] \in DOMAIN st.digests
                       /\ st.digests[PathOrder[i]].kind = "file"
                       /\ SameBytes(st.digests[PathOrder[i]].content, m.content)
                       /\ IsSuffix(m.name, PathOrder[i])
                       /\ \A j \in 1..(i - 1) : IsSuffix(m.name, PathOrder[j]) =>
                              PathOrder[j] \notin DOMAIN st.digests
  BY DEF MaterialsFit
<1> DEFINE matching == {p \in DOMAIN st.digests : material_matches_path(m, p)}
           path == First(PathOrder, matching)
<1>1. /\ path # None
      /\ st.digests[path].kind = "file"
      /\ SameBytes(st.digests[path].content, m.content)
  BY DEF Misaligned, ObservedMaterial
<1>2. PICK i \in DOMAIN PathOrder : /\ PathOrder[i] = path /\ PathOrder[i] \in matching
                                    /\ \A j \in 1..(i - 1) : PathOrder[j] \notin matching
  BY <1>1, FirstIsInOrder
<1> QED
  BY <1>1, <1>2 DEF material_matches_path

LEMMA ComparedIsSound ==
    ASSUME NEW st, Sound(st), NEW recipe, NEW verify
    PROVE  LET compared == compare_recipe_metadata(recipe, st, verify)
           IN  /\ Sound(compared)
               /\ compared.digests = st.digests
               /\ Retains(st, compared)
               /\ Forbids(compared.findings) \/ st.requires \subseteq st.checksums
               /\ verify = TRUE => Forbids(compared.findings) \/ MaterialsFit(recipe, st.digests)
<1> DEFINE missing == {<<"sbom-missing-integrity", r[1]>> : r \in st.requires \ st.checksums}
           checked == AddPolicies(st, missing, <<"go.sum">>)
           Severity(material) == IF material_is_file(material) THEN "high" ELSE "low"
           misaligned == {m \in recipe.materials : Misaligned(m, st)}
           findings == IF verify
                       THEN {Finding("metadata-misalignment", Severity(m), m.name) : m \in misaligned}
                       ELSE {}
           compared == Add(checked, findings, {})
<1>1. OfPolicies(missing)
  BY DEF OfPolicies, Osv
<1>2. missing = {} => st.requires \subseteq st.checksums
  OBVIOUS
<1>3. \A f \in findings : f.category # Osv
  BY DEF Finding, Osv
<1>4. compare_recipe_metadata(recipe, st, verify) = compared
  BY DEF compare_recipe_metadata
<1>5. ASSUME verify = TRUE, ~MaterialsFit(recipe, st.digests)
      PROVE  Forbids(findings)
  <2>1. PICK m \in recipe.materials : material_is_file(m) /\ Misaligned(m, st)
    BY <1>5, AlignedFits
  <2>2. Finding("metadata-misalignment", "high", m.name) \in findings
    BY <1>5, <2>1
  <2> QED
    BY <2>2 DEF Forbids, Finding, Osv
<1> HIDE DEF missing, findings
<1>6. /\ Sound(checked) /\ checked.digests = st.digests /\ Retains(st, checked)
      /\ missing # {} => Forbids(checked.findings)
  BY <1>1, PoliciesAreSound
<1> HIDE DEF checked
<1>7. /\ Sound(compared) /\ compared.digests = checked.digests /\ Retains(checked, compared)
      /\ compared.findings = checked.findings \cup findings
  BY <1>3, <1>6, AddIsSound
<1> HIDE DEF compared
<1>8. Forbids(findings) \/ Forbids(checked.findings) => Forbids(compared.findings)
  BY <1>7 DEF Forbids
<1> QED
  BY <1>2, <1>4, <1>5, <1>6, <1>7, <1>8 DEF Retains

\* Every file of a tree is clean among the others, those that were raced for excepted.
CleanExcept(t, races) ==
    \A p \in DOMAIN t \ races : t[p].kind = "file" => CleanAmong(t, FileAt(p, t[p].content))

\* The checksums are those of the files of a tree.
SumsAreOf(t, checksums) ==
    \A sum \in checksums : \E p \in DOMAIN t : t[p].kind = "file" /\ IsSum(p, t[p].content, sum)

LEMMA VettedIsClean ==
    ASSUME NEW t, NEW races, NEW st, ~Forbids(st.findings), st.requires \subseteq st.checksums,
           SumsAreOf(t, st.checksums),
           \A p \in DOMAIN t \ races : t[p].kind = "file" => Vetted(st, p, t[p].content)
    PROVE  CleanExcept(t, races)
<1> SUFFICES ASSUME NEW p \in DOMAIN t \ races, t[p].kind = "file"
             PROVE  CleanAmong(t, FileAt(p, t[p].content))
  BY DEF CleanExcept
<1> DEFINE c == t[p].content
<1>1. /\ Clean(FileAt(p, c))
      /\ IsText(c) /\ Last(p) = "go.mod" => \A d \in c.deps : <<d.name, d.version>> \in st.requires
  BY DEF Vetted
<1>2. ASSUME NEW d, <<d.name, d.version>> \in st.requires PROVE Summed(t, d)
  <2>1. PICK q \in DOMAIN t : t[q].kind = "file" /\ IsSum(q, t[q].content, <<d.name, d.version>>)
    BY <1>2 DEF SumsAreOf
  <2> QED
    BY <2>1 DEF IsSum, Summed
<1> QED
  BY <1>1, <1>2 DEF CleanAmong, FileAt

-----------------------------------------------------------------------------
(***************************************************************************)
(* Reports.                                                                *)
(***************************************************************************)
LEMMA FilesAreSound ==
    ASSUME NEW recipe, NEW t, NEW files, files \subseteq FilesOf(t)
    PROVE  LET st == InspectFiles(recipe, t, files)
           IN  /\ Sound(st)
               /\ SumsAreOf(t, st.checksums)
               /\ \A p \in files : t[p].kind = "file" => Vetted(st, p, t[p].content)
<1> DEFINE Found(p) == Inspect(recipe, p, t[p], ScannerState)
           components == UNION {Found(p).components : p \in files}
           keys == UNION {{KeyOf(c) : c \in Found(p).components} : p \in files}
           chosen == {CHOOSE c \in components : KeyOf(c) = key : key \in keys}
           findings == UNION {Found(p).findings : p \in files}
           candidates == UNION {Found(p).candidates : p \in files}
           st == InspectFiles(recipe, t, files)
<1>1. \A p \in files :
         /\ Sound(Found(p))
         /\ t[p].kind # "symlink" => /\ SumsOf(ScannerState, Found(p), p, t[p].content)
                                     /\ Vetted(Found(p), p, t[p].content)
         /\ t[p].kind = "symlink" => Found(p).checksums = ScannerState.checksums
  BY StartIsSound, InspectIsSound
<1>2. /\ IsScanner(st) /\ st.components = chosen /\ st.findings = findings
      /\ st.candidates = candidates
      /\ st.requires = UNION {Found(p).requires : p \in files}
      /\ st.checksums = UNION {Found(p).checksums : p \in files}
  BY DEF InspectFiles, IsScanner
<1> HIDE DEF Found, st
<1>3. \A key \in keys : \E c \in components : KeyOf(c) = key
  OBVIOUS
<1>4. /\ \A c \in chosen : c.kind \in ComponentKinds
      /\ \A key \in keys : \E c \in chosen : KeyOf(c) = key
  <2>1. \A c \in components : c.kind \in ComponentKinds
    BY <1>1 DEF Sound
  <2> HIDE DEF components, keys
  <2> QED
    BY <1>3, <2>1
<1>5. /\ \A f \in findings : f.category # Osv
      /\ \A a \in candidates : IsAssessment(a) /\ a.status = "under_investigation"
  BY <1>1 DEF Sound
<1>6. ASSUME candidates # {} PROVE Forbids(findings)
  <2>1. PICK p \in files : Found(p).candidates # {}
    BY <1>6
  <2>2. Forbids(Found(p).findings)
    BY <1>1, <2>1 DEF Sound
  <2>3. Found(p).findings \subseteq findings
    OBVIOUS
  <2> HIDE DEF findings
  <2> QED
    BY <2>2, <2>3 DEF Forbids
<1>7. ASSUME NEW p \in files, t[p].kind = "file" PROVE Vetted(st, p, t[p].content)
  <2>1. Vetted(Found(p), p, t[p].content)
    BY <1>1, <1>7
  <2>2. Found(p).findings \subseteq findings /\ Found(p).requires \subseteq st.requires
    BY <1>2
  <2>3. \A c \in Found(p).components : KeyOf(c) \in keys
    OBVIOUS
  <2> HIDE DEF chosen, keys, findings
  <2>4. Lists(st.components, p, t[p].content)
    BY <1>2, <1>4, <2>1, <2>3 DEF Vetted, Lists
  <2>5. Forbids(Found(p).findings) => Forbids(st.findings)
    BY <1>2, <2>2 DEF Forbids
  <2> QED
    BY <2>1, <2>2, <2>4, <2>5 DEF Vetted
<1>8. SumsAreOf(t, st.checksums)
  <2> SUFFICES ASSUME NEW p \in files, NEW sum \in Found(p).checksums
               PROVE  p \in DOMAIN t /\ t[p].kind = "file" /\ IsSum(p, t[p].content, sum)
    BY <1>2 DEF SumsAreOf
  <2>1. ScannerState.checksums = {}
    BY DEF ScannerState
  <2>2. t[p].kind # "symlink" /\ IsSum(p, t[p].content, sum)
    BY <1>1, <2>1 DEF SumsOf
  <2> QED
    BY <2>2 DEF FilesOf
<1> HIDE DEF chosen, findings, candidates
<1>9. Sound(st)
  BY <1>2, <1>4, <1>5, <1>6 DEF Sound
<1> QED
  BY <1>7, <1>8, <1>9 DEF st

IsReport(r) ==
    r \in [recipe_digest : {r.recipe_digest}, layers : {r.layers}, components : {r.components},
           crypto : {r.crypto}, findings : {r.findings}, assessments : {r.assessments},
           filesystem : {r.filesystem}, raced : {r.raced}, osv : {r.osv}]

\* A report before the autonomous assessment: nothing is fixed yet.
ReportOK(r) ==
    /\ IsReport(r)
    /\ \A a \in r.assessments : IsAssessment(a) /\ a.status \in {"affected", "under_investigation"}
    /\ \A c \in r.components : c.kind \in ComponentKinds

LEMMA ReportIsOK ==
    ASSUME NEW st, Sound(st), NEW recipe, NEW layers
    PROVE  /\ ReportOK(Report(st, recipe, layers))
           /\ Report(st, recipe, layers).findings = st.findings
           /\ Report(st, recipe, layers).components = st.components
           /\ Report(st, recipe, layers).assessments = st.candidates
           /\ Report(st, recipe, layers).filesystem = st.digests
BY DEF ReportOK, IsReport, Report, NoReport, Sound

\* Nothing speaks against the files of a tree, and their components are known.
Vouched(components, t) ==
    /\ CleanExcept(t, {})
    /\ \A p \in DOMAIN t : t[p].kind = "file" => Lists(components, p, t[p].content)

LEMMA LayerReportsAreOK ==
    ASSUME NEW t, NEW recipe, NEW layers, NEW r \in LayerReports(t, recipe, layers)
    PROVE  ReportOK(r) /\ (Forbids(r.findings) \/ Vouched(r.components, t))
<1> DEFINE Scanned(files) == Report(InspectTree(recipe, t, files, FALSE), recipe, layers)
           CutShort(s) == [s EXCEPT !.findings = @ \cup {Finding("scan-incomplete", "high", None)}]
<1>1. PICK files : /\ files \subseteq FilesOf(t)
                   /\ \/ r = Scanned(files) /\ files = FilesOf(t)
                      \/ r = CutShort(Scanned(files))
  BY DEF LayerReports, kSubset
<1> DEFINE st == InspectFiles(recipe, t, files)
           scanned == InspectTree(recipe, t, files, FALSE)
<1>2. /\ Sound(st) /\ SumsAreOf(t, st.checksums)
      /\ \A p \in files : t[p].kind = "file" => Vetted(st, p, t[p].content)
  BY <1>1, FilesAreSound
<1>3. scanned = compare_recipe_metadata(recipe, st, FALSE)
  BY DEF InspectTree
<1> HIDE DEF st, scanned
<1>4. /\ Sound(scanned) /\ Retains(st, scanned)
      /\ Forbids(scanned.findings) \/ st.requires \subseteq st.checksums
  BY <1>2, <1>3, ComparedIsSound
<1>5. /\ ReportOK(Scanned(files)) /\ Scanned(files).findings = scanned.findings
      /\ Scanned(files).components = scanned.components
  BY <1>4, ReportIsOK DEF scanned
<1> HIDE DEF Scanned
<1>6. CASE r = Scanned(files) /\ files = FilesOf(t)
  <2> SUFFICES ASSUME ~Forbids(r.findings) PROVE Vouched(r.components, t)
    BY <1>5, <1>6
  <2>1. ~Forbids(st.findings) /\ st.requires \subseteq st.checksums
    BY <1>4, <1>5, <1>6 DEF Retains, Forbids
  <2>2. \A p \in DOMAIN t : t[p].kind = "file" => Vetted(st, p, t[p].content)
    BY <1>2, <1>6 DEF FilesOf
  <2>3. CleanExcept(t, {})
    BY <1>2, <2>1, <2>2, VettedIsClean
  <2> QED
    BY <1>4, <1>5, <1>6, <2>2, <2>3 DEF Vouched, Vetted, Retains
<1>7. CASE r = CutShort(Scanned(files))
  <2> DEFINE limit == Finding("scan-incomplete", "high", None)
  <2>1. limit.severity = "high" /\ limit.category # Osv
    BY DEF Finding, Osv
  <2> HIDE DEF limit
  <2>2. ReportOK(r) /\ limit \in r.findings
    BY <1>5, <1>7 DEF ReportOK, IsReport, limit
  <2> QED
    BY <2>1, <2>2 DEF Forbids
<1> QED
  BY <1>1, <1>6, <1>7

-----------------------------------------------------------------------------
(***************************************************************************)
(* The inductive invariant.                                                *)
(***************************************************************************)
RequestInv ==
    /\ pc \in {"idle", "walk", "source", "intake", "rewalk", "unpack", "layer", "assess", "done"}
    /\ pc \in {"walk", "source", "intake", "rewalk"} =>
           request \in Requests /\ request.kind # "image"
    /\ pc \in {"intake", "rewalk", "assess"} => request.kind = "build"
    /\ verdict \in {None, "allowed", "denied"}
    /\ verdict # None => pc = "done"

\* The walk: whatever nobody has touched since it began is still to be met, or is being looked
\* at and as it was, or is in the inventory as it is.
IsAs(p, digested) == p \in FilesOf(tree) /\ digested = Digested(tree[p].kind, tree[p].content)

VisitInv ==
    visiting.path # None =>
        /\ visiting.path \notin DOMAIN scanner.digests
        /\ visiting.path \in DOMAIN tree => tree[visiting.path].kind = "file"
        /\ IsContent(visiting.stat)
        /\ visiting.prefix # None => IsContent(visiting.prefix)

\* What is in the inventory has been looked at.
VettingInv ==
    /\ VisitInv
    /\ SumsAreOf(scanner.digests, scanner.checksums)
    /\ \A p \in DOMAIN scanner.digests \ raced :
           scanner.digests[p].kind = "file" => Vetted(scanner, p, scanner.digests[p].content)

WalkInv ==
    /\ Sound(scanner) /\ VettingInv
    /\ \A p \in DOMAIN tree : p # None /\ IsNode(tree[p])
    /\ visiting = [path |-> visiting.path, stat |-> visiting.stat, prefix |-> visiting.prefix]
    /\ visiting.path # None /\ visiting.path \notin touched =>
           IsAs(visiting.path, Digested("file", visiting.stat))
    /\ \A p \in FilesOf(tree) \ touched :
           p \in due \/ p = visiting.path \/ p \in DOMAIN scanner.digests
    /\ \A p \in DOMAIN scanner.digests \ touched : IsAs(p, scanner.digests[p])

\* What an intake that lets a source pass has seen to.
Answerable(r) ==
    /\ \A a \in r.assessments : is_osv_assessment(r, a)
    /\ MaterialsFit(request.recipe, r.filesystem)
    /\ CleanExcept(r.filesystem, r.raced)

ReportInv ==
    /\ pc # "done" => ReportOK(report)
    /\ pc \in {"source", "intake"} /\ request.kind = "build" =>
           Forbids(report.findings) \/ Answerable(report)
    /\ pc \in {"rewalk", "unpack", "layer", "assess"} /\ request.kind = "build" =>
           ReportOK(source) /\ Answerable(source)

\* The lookup of the layer: a component that was asked about was answered for, or the lookup
\* counts as failed, and an answer is an assessment.
Answered(c) == \E m \in matches : m[1] = c

LookupRequired == request.mode = "required" \/ request.recipe.require_osv

LookupInv ==
    /\ pc \in {"layer", "assess"} =>
           \A m \in matches : \A v \in m[2] : AssessmentOf(m[1], v, "affected") \in report.assessments
    /\ pc = "layer" => osv_failed \/ \A c \in sent : Answered(c)
    /\ pc = "assess" /\ report.osv = "completed" => \A c \in Queries : Answered(c)
    /\ pc = "assess" /\ LookupRequired =>
           Forbids(report.findings) \/ \A c \in Queries : Answered(c)
    /\ pc \in {"layer", "assess"} =>
           Forbids(report.findings) \/ Vouched(report.components, rootfs)

\* Nothing speaks against the files that were inspected, and the lookup, if required, was
\* answered for each component of each file of the unpacked layer.
InspectedIsClean ==
    verdict = "allowed" =>
        CleanExcept(source.filesystem, source.raced) /\ CleanExcept(rootfs, {})

InspectedWasLookedUp ==
    verdict = "allowed" /\ LookupRequired =>
        \A p \in DOMAIN rootfs : rootfs[p].kind = "file" /\ IsText(rootfs[p].content) =>
            \A c \in Parsed(p, rootfs[p].content).components : ecosystem(c.kind) # None =>
                \E m \in matches : KeyOf(m[1]) = c /\ m[2] = {}

IInv ==
    /\ RequestInv /\ WalkInv /\ ReportInv /\ LookupInv
    /\ SourceIsAsScanned /\ FixedIsProven /\ SubjectsAnswered /\ MaterialsAreTheirs
    /\ InspectedIsClean /\ InspectedWasLookedUp

LEMMA InitIsSafe == Init => IInv
<1> SUFFICES ASSUME Init PROVE IInv
  OBVIOUS
<1>1. RequestInv
  BY DEF Init, RequestInv
<1>2. WalkInv
  BY StartIsSound DEF Init, InitScan, WalkInv, VettingInv, VisitInv, SumsAreOf, NoFile, FilesOf,
     ScannerState
<1>3. ReportInv
  BY DEF Init, ReportInv, ReportOK, IsReport, NoReport
<1>4. LookupInv
  BY DEF Init, LookupInv
<1>5. /\ SourceIsAsScanned /\ FixedIsProven /\ SubjectsAnswered /\ MaterialsAreTheirs
      /\ InspectedIsClean /\ InspectedWasLookedUp
  BY InspectionAssumption
     DEF Init, SourceIsAsScanned, FixedIsProven, SubjectsAnswered, MaterialsAreTheirs,
         InspectedIsClean, InspectedWasLookedUp
<1> QED
  BY <1>1, <1>2, <1>3, <1>4, <1>5 DEF IInv

-----------------------------------------------------------------------------
(***************************************************************************)
(* The walk and the edits.                                                 *)
(***************************************************************************)
LEMMA WalkRests ==
    ASSUME WalkInv, UNCHANGED scanVars
    PROVE  WalkInv'
<1>1. VettingInv'
  BY DEF WalkInv, VettingInv, VisitInv, scanVars
<1> QED
  BY <1>1 DEF WalkInv, scanVars, IsAs, FilesOf

LEMMA WalkStarts ==
    ASSUME NEW t, tree' = t, StartWalk(t), \A p \in DOMAIN t : p # None /\ IsNode(t[p])
    PROVE  WalkInv'
<1>1. /\ Sound(scanner') /\ DOMAIN scanner'.digests = {} /\ scanner'.checksums = {}
      /\ visiting' = NoFile /\ due' = FilesOf(tree')
  BY StartIsSound DEF StartWalk, ScannerState
<1>2. VettingInv'
  BY <1>1 DEF VettingInv, VisitInv, SumsAreOf, NoFile
<1> QED
  BY <1>1, <1>2 DEF WalkInv, NoFile, FilesOf

LEMMA EditIsSeen ==
    ASSUME WalkInv, NEW p, p # None, NEW node,
           node # None => node.kind = "file" /\ IsNode(node), EditTree(p, node)
    PROVE  WalkInv'
<1>1. /\ \A q \in DOMAIN tree' \ {p} : q \in DOMAIN tree /\ tree'[q] = tree[q]
      /\ \A q \in DOMAIN tree \ {p} : q \in DOMAIN tree'
      /\ p \in DOMAIN tree' => tree'[p].kind = "file" /\ IsNode(tree'[p])
  BY DEF EditTree, Restrict, With
<1>2. /\ touched' = touched \cup {p}
      /\ UNCHANGED <<scanner, due, visiting, raced>>
  BY DEF EditTree
<1>3. \A q : q # p => (q \in FilesOf(tree)' <=> q \in FilesOf(tree))
  BY <1>1 DEF FilesOf
<1>4. \A q, digested : q # p /\ IsAs(q, digested) => IsAs(q, digested)'
  BY <1>1, <1>3 DEF IsAs, FilesOf
<1>5. \A q \in DOMAIN tree' : q # None /\ IsNode(tree'[q])
  BY <1>1 DEF WalkInv
<1>6. VettingInv'
  BY <1>1, <1>2 DEF WalkInv, VettingInv, VisitInv
<1> QED
  BY <1>2, <1>3, <1>4, <1>5, <1>6 DEF WalkInv

\* A file that is taken for empty still is a content.
LEMMA EmptiedIsContent ==
    ASSUME NEW c, IsContent(c), NEW binary
    PROVE  IsContent([c EXCEPT !.binary = binary])
<1> DEFINE fields == {"exec", "long", "binary", "parses", "deps", "marks"}
<1>1. DOMAIN c = fields
  <2>1. DOMAIN [exec |-> c.exec, long |-> c.long, binary |-> c.binary, parses |-> c.parses,
                deps |-> c.deps, marks |-> c.marks] = fields
    OBVIOUS
  <2> QED
    BY <2>1 DEF IsContent
<1>2. [c EXCEPT !.binary = binary] = [f \in fields |-> IF f = "binary" THEN binary ELSE c[f]]
  BY <1>1
<1> QED
  BY <1>2 DEF IsContent

\* The bytes that are read.
LEMMA CurrentIsContent ==
    ASSUME WalkInv, NEW p, Visiting(p)
    PROVE  /\ IsContent(tree[p].content)
           /\ IsContent(Current(p)) /\ Current(p).exec = visiting.stat.exec
           /\ [Current(p) EXCEPT !.exec = visiting.stat.exec] = Current(p)
<1> DEFINE c == tree[p].content
<1>1. p \in DOMAIN tree /\ p # None /\ visiting.path = p
  BY DEF Visiting, WalkInv
<1>2. tree[p].kind = "file" /\ IsNode(tree[p])
  BY <1>1 DEF WalkInv, VettingInv, VisitInv
<1>3. IsContent(c)
  BY <1>2 DEF IsNode
<1> HIDE DEF c
<1>4. Current(p) = [c EXCEPT !.exec = visiting.stat.exec]
  BY DEF Current, c
<1> HIDE DEF Current
<1>5. Current(p) = [exec |-> visiting.stat.exec, long |-> c.long, binary |-> c.binary,
                    parses |-> c.parses, deps |-> c.deps, marks |-> c.marks]
  BY <1>3, <1>4 DEF IsContent
<1> QED
  BY <1>3, <1>5 DEF IsContent, c

\* The bytes of a file that nobody has touched since its mode and length were taken.
LEMMA CurrentIsAsMet ==
    ASSUME WalkInv, NEW p, Visiting(p), p \notin touched
    PROVE  IsAs(p, Digested("file", Current(p)))
<1>1. p \in DOMAIN tree /\ p # None /\ IsNode(tree[p]) /\ visiting.path = p
  BY DEF Visiting, WalkInv
<1>2. IsAs(p, Digested("file", visiting.stat))
  BY <1>1 DEF WalkInv
<1>3. tree[p].kind = "file" /\ tree[p].content = visiting.stat
  BY <1>2 DEF IsAs, Digested
<1>4. Current(p) = tree[p].content
  BY <1>1, <1>3 DEF Current, IsNode, IsContent
<1> QED
  BY <1>2, <1>3, <1>4

\* The inventory grows by a file, and the findings by what speaks against it.
LEMMA VettingGoesOn ==
    ASSUME VettingInv, NEW p, p \notin DOMAIN scanner.digests, NEW digested,
           scanner'.digests = With(scanner.digests, p, digested),
           Grows(scanner, scanner'), raced \subseteq raced',
           \/ digested.kind # "file" /\ scanner'.checksums = scanner.checksums
           \/ /\ digested.kind = "file"
              /\ SumsOf(scanner, scanner', p, digested.content)
              /\ p \notin raced' => Vetted(scanner', p, digested.content),
           VisitInv'
    PROVE  VettingInv'
<1>1. /\ \A q \in DOMAIN scanner'.digests :
            IF q = p THEN scanner'.digests[q] = digested
            ELSE q \in DOMAIN scanner.digests /\ scanner'.digests[q] = scanner.digests[q]
      /\ \A q \in DOMAIN scanner.digests \cup {p} : q \in DOMAIN scanner'.digests
  BY DEF With
<1>2. SumsAreOf(scanner'.digests, scanner'.checksums)
  <2> SUFFICES ASSUME NEW sum \in scanner'.checksums
               PROVE  \E q \in DOMAIN scanner'.digests :
                         /\ scanner'.digests[q].kind = "file"
                         /\ IsSum(q, scanner'.digests[q].content, sum)
    BY DEF SumsAreOf
  <2>1. CASE sum \in scanner.checksums
    <3>1. PICK q \in DOMAIN scanner.digests :
             scanner.digests[q].kind = "file" /\ IsSum(q, scanner.digests[q].content, sum)
      BY <2>1 DEF VettingInv, SumsAreOf
    <3>2. q # p /\ q \in DOMAIN scanner'.digests /\ scanner'.digests[q] = scanner.digests[q]
      BY <1>1
    <3> QED
      BY <3>1, <3>2
  <2>2. CASE sum \notin scanner.checksums
    <3>1. digested.kind = "file" /\ IsSum(p, digested.content, sum)
      BY <2>2 DEF SumsOf
    <3> QED
      BY <1>1, <3>1
  <2> QED
    BY <2>1, <2>2
<1>3. ASSUME NEW q \in DOMAIN scanner'.digests \ raced', scanner'.digests[q].kind = "file"
      PROVE  Vetted(scanner', q, scanner'.digests[q].content)
  <2>1. CASE q = p
    BY <1>1, <1>3, <2>1
  <2>2. CASE q # p
    <3>1. /\ q \in DOMAIN scanner.digests \ raced /\ scanner'.digests[q] = scanner.digests[q]
          /\ scanner.digests[q].kind = "file"
      BY <1>1, <1>3, <2>2
    <3>2. Vetted(scanner, q, scanner.digests[q].content)
      BY <3>1 DEF VettingInv
    <3> QED
      BY <3>1, <3>2, VettedStays
  <2> QED
    BY <2>1, <2>2
<1> QED
  BY <1>2, <1>3 DEF VettingInv

\* The end of the visit of a file.
LEMMA VisitEnds ==
    ASSUME WalkInv, NEW p, Visiting(p), NEW c,
           Sound(scanner'), scanner'.digests = With(scanner.digests, p, Digested("file", c)),
           p \notin touched => IsAs(p, Digested("file", c)),
           Grows(scanner, scanner'), SumsOf(scanner, scanner', p, c),
           raced \subseteq raced', p \notin raced' => Vetted(scanner', p, c),
           visiting' = NoFile, UNCHANGED <<tree, due, touched>>
    PROVE  WalkInv'
<1> DEFINE digested == Digested("file", c)
<1>1. digested.kind = "file" /\ digested.content = c
  BY DEF Digested
<1> HIDE DEF digested
<1>2. p # None /\ visiting.path = p
  BY DEF Visiting, WalkInv
<1>3. p \notin DOMAIN scanner.digests
  BY <1>2 DEF WalkInv, VettingInv, VisitInv
<1>4. VisitInv'
  BY DEF VisitInv, NoFile
<1>5. scanner'.digests = With(scanner.digests, p, digested) /\ (p \notin touched => IsAs(p, digested))
  BY DEF digested
<1>6. VettingInv'
  BY <1>1, <1>3, <1>4, <1>5, VettingGoesOn DEF WalkInv
<1>7. /\ \A q \in DOMAIN scanner'.digests :
            IF q = p THEN scanner'.digests[q] = digested
            ELSE q \in DOMAIN scanner.digests /\ scanner'.digests[q] = scanner.digests[q]
      /\ \A q \in DOMAIN scanner.digests \cup {p} : q \in DOMAIN scanner'.digests
  BY <1>5 DEF With
<1>8. \A q \in DOMAIN scanner'.digests \ touched : IsAs(q, scanner'.digests[q])
  BY <1>5, <1>7 DEF WalkInv
<1>9. \A q \in FilesOf(tree) \ touched :
         q \in due \/ q = visiting'.path \/ q \in DOMAIN scanner'.digests
  BY <1>2, <1>7 DEF WalkInv
<1> QED
  BY <1>6, <1>8, <1>9 DEF WalkInv, IsAs, FilesOf, NoFile

LEMMA StepIsSeen ==
    ASSUME WalkInv, NEW recipe, WalkStep(recipe)
    PROVE  WalkInv'
<1>1. PICK p : \/ LimitReached(p) \/ MeetSymlink(p) \/ Stat(p) \/ Unlisted(p)
               \/ ReadFile(recipe, p) \/ ReadPrefix \/ DigestWhole(p)
  BY DEF WalkStep
<1>2. Sound(Met) /\ Met.digests = scanner.digests /\ Retains(scanner, Met)
  BY CountIsSound DEF WalkInv, Met
<1>3. CASE LimitReached(p)
  <2> DEFINE findings == {Finding("scan-incomplete", "high", None)}
  <2>1. \A f \in findings : f.category # Osv
    BY DEF Finding, Osv
  <2>2. scanner' = Add(Met, findings, {}) /\ UNCHANGED <<tree, due, visiting, raced, touched>>
    BY <1>3 DEF LimitReached
  <2> HIDE DEF findings
  <2>3. Sound(scanner') /\ scanner'.digests = scanner.digests /\ Retains(scanner, scanner')
    BY <1>2, <2>1, <2>2, AddIsSound DEF Retains
  <2>4. VettingInv'
    BY <2>2, <2>3, VettedStays DEF WalkInv, VettingInv, VisitInv, Retains, Grows
  <2> QED
    BY <2>2, <2>3, <2>4 DEF WalkInv, IsAs, FilesOf
<1>4. CASE MeetSymlink(p)
  <2> DEFINE digested == Digested("symlink", tree[p].content)
  <2>1. /\ scanner' = [Met EXCEPT !.digests = With(@, p, digested)]
        /\ IsAs(p, digested) /\ digested.kind # "file"
        /\ visiting.path = None /\ p \notin DOMAIN scanner.digests
        /\ due' = due \ {p} /\ UNCHANGED <<tree, visiting, raced, touched>>
    BY <1>4 DEF MeetSymlink, MayMeet, IsAs, Digested
  <2> HIDE DEF digested
  <2>2. /\ Sound(scanner') /\ scanner'.digests = With(scanner.digests, p, digested)
        /\ Retains(scanner, scanner')
    BY <1>2, <2>1, DigestIsSound DEF Retains
  <2>3. /\ \A q \in DOMAIN scanner'.digests :
              IF q = p THEN scanner'.digests[q] = digested
              ELSE q \in DOMAIN scanner.digests /\ scanner'.digests[q] = scanner.digests[q]
        /\ \A q \in DOMAIN scanner.digests \cup {p} : q \in DOMAIN scanner'.digests
    BY <2>2 DEF With
  <2>4. \A q \in DOMAIN scanner'.digests \ touched : IsAs(q, scanner'.digests[q])
    BY <2>1, <2>3 DEF WalkInv
  <2>5. VettingInv'
    <3>1. VisitInv' /\ Grows(scanner, scanner') /\ scanner'.checksums = scanner.checksums
      BY <2>1, <2>2 DEF VisitInv, Grows, Retains
    <3> QED
      BY <2>1, <2>2, <3>1, VettingGoesOn DEF WalkInv
  <2> QED
    BY <2>1, <2>2, <2>3, <2>4, <2>5 DEF WalkInv, IsAs, FilesOf
<1>5. CASE Stat(p)
  <2>1. /\ scanner' = Met /\ due' = due \ {p} /\ UNCHANGED <<tree, raced, touched>>
        /\ visiting' = [path |-> p, stat |-> tree[p].content, prefix |-> None]
        /\ visiting.path = None
        /\ p \in FilesOf(tree) /\ tree[p].kind = "file" /\ p \notin DOMAIN scanner.digests
    BY <1>5 DEF Stat, MayMeet
  <2>2. IsAs(p, Digested("file", tree[p].content))
    BY <2>1 DEF IsAs
  <2>3. \A q \in FilesOf(tree) : q # None
    BY DEF FilesOf, WalkInv
  <2>4. VettingInv'
    <3>1. IsContent(tree[p].content)
      BY <2>1 DEF WalkInv, FilesOf, IsNode
    <3>2. VisitInv'
      BY <1>2, <2>1, <3>1 DEF VisitInv
    <3> QED
      BY <1>2, <2>1, <3>2, VettedStays DEF WalkInv, VettingInv, Retains, Grows
  <2> QED
    BY <1>2, <2>1, <2>2, <2>3, <2>4 DEF WalkInv, IsAs, FilesOf
<1>6. CASE Unlisted(p)
  <2>1. VettingInv'
    BY <1>6 DEF Unlisted, WalkInv, VettingInv, VisitInv
  <2> QED
    BY <1>6, <2>1 DEF Unlisted, WalkInv, IsAs, FilesOf
<1>7. CASE ReadFile(recipe, p)
  <2> DEFINE c == Current(p)
  <2>1. /\ Visiting(p) /\ scanner' = InspectRead(recipe, p, c, scanner)
        /\ raced' = IF c.long THEN raced \cup {p} ELSE raced
        /\ visiting' = NoFile /\ UNCHANGED <<tree, due, touched>>
    BY <1>7 DEF ReadFile
  <2>2. /\ Sound(scanner')
        /\ scanner'.digests = With(scanner.digests, p, Digested("file", c))
        /\ Grows(scanner, scanner') /\ SumsOf(scanner, scanner', p, c)
        /\ ~c.long => Vetted(scanner', p, c)
    BY <2>1, ReadIsSound DEF WalkInv
  <2>3. p \notin touched => IsAs(p, Digested("file", c))
    BY <2>1, CurrentIsAsMet
  <2> HIDE DEF c
  <2> QED
    BY <2>1, <2>2, <2>3, VisitEnds
<1>8. CASE ReadPrefix
  <2> DEFINE prefix == IF visiting.path \in DOMAIN tree THEN tree[visiting.path].content
                       ELSE [visiting.stat EXCEPT !.binary = FALSE]
  <2>1. /\ visiting.path # None /\ visiting' = [visiting EXCEPT !.prefix = prefix]
        /\ UNCHANGED <<tree, scanner, due, raced, touched>>
    BY <1>8 DEF ReadPrefix
  <2>2. visiting' = [path |-> visiting.path, stat |-> visiting.stat, prefix |-> prefix]
    BY <2>1 DEF WalkInv
  <2>3. IsContent(prefix)
    <3>1. visiting.path \in DOMAIN tree => IsContent(tree[visiting.path].content)
      BY <2>1, CurrentIsContent DEF Visiting
    <3>2. IsContent(visiting.stat)
      BY <2>1 DEF WalkInv, VettingInv, VisitInv
    <3>3. IsContent([visiting.stat EXCEPT !.binary = FALSE])
      BY <3>2, EmptiedIsContent
    <3> QED
      BY <3>1, <3>3
  <2> HIDE DEF prefix
  <2>4. VettingInv'
    BY <2>1, <2>2, <2>3 DEF WalkInv, VettingInv, VisitInv
  <2> QED
    BY <2>1, <2>2, <2>4 DEF WalkInv, IsAs, FilesOf
<1>9. CASE DigestWhole(p)
  <2> DEFINE c == Current(p)
             Steady == \A read \in {visiting.prefix, visiting.stat} : SameBytes(c, read)
  <2>1. /\ Visiting(p)
        /\ scanner' = InspectLong(p, visiting.stat.exec, visiting.prefix.binary, c, scanner)
        /\ raced' = IF Steady THEN raced ELSE raced \cup {p}
        /\ visiting.prefix # None /\ visiting.stat.long
        /\ visiting' = NoFile /\ UNCHANGED <<tree, due, touched>>
    BY <1>9 DEF DigestWhole
  <2>2. /\ IsContent(c) /\ c.exec = visiting.stat.exec
        /\ [c EXCEPT !.exec = visiting.stat.exec] = c
    BY <2>1, CurrentIsContent
  <2>3. p \notin touched => IsAs(p, Digested("file", c))
    BY <2>1, CurrentIsAsMet
  <2>4. IsContent(visiting.stat) /\ IsContent(visiting.prefix)
    BY <2>1 DEF WalkInv, VettingInv, VisitInv, Visiting
  <2> HIDE DEF c
  <2>5. /\ Sound(scanner')
        /\ scanner'.digests = With(scanner.digests, p, Digested("file", c))
        /\ Retains(scanner, scanner')
        /\ c.long /\ c.exec = visiting.stat.exec /\ c.binary = visiting.prefix.binary =>
               Vetted(scanner', p, c)
    BY <2>1, <2>2, LongIsSound DEF WalkInv
  <2>6. \A d : IsContent(d) /\ SameBytes(c, d) => c.long = d.long /\ c.binary = d.binary
    BY <2>2 DEF SameBytes, IsContent
  <2>7. Steady => c.long /\ c.binary = visiting.prefix.binary
    BY <2>1, <2>4, <2>6
  <2>8. Grows(scanner, scanner') /\ SumsOf(scanner, scanner', p, c)
    BY <2>5 DEF Retains, Grows, SumsOf
  <2>9. raced \subseteq raced' /\ (p \notin raced' => Vetted(scanner', p, c))
    BY <2>1, <2>2, <2>5, <2>7
  <2> QED
    BY <2>1, <2>3, <2>5, <2>8, <2>9, VisitEnds
<1> QED
  BY <1>1, <1>3, <1>4, <1>5, <1>6, <1>7, <1>8, <1>9

-----------------------------------------------------------------------------
(***************************************************************************)
(* The gate.                                                               *)
(***************************************************************************)
LEMMA AllowedIsConclusive ==
    ASSUME NEW recipe, NEW build, NEW scan,
           evaluate_gate(recipe, build, scan, << >>, 0) # "denied"
    PROVE  \A a \in scan.assessments : a.status \notin {"affected", "under_investigation"}
<1>1. ~Denies(recipe, build, scan, << >>, 0)
  BY DEF evaluate_gate
<1>2. scan # None
  BY <1>1 DEF Denies, slsa_policy_findings, ScanDefect, SlsaCategories
<1>3. \A a \in scan.assessments : ~vex_resolves_candidate(recipe, a, << >>, build, 0)
  BY DEF vex_resolves_candidate
<1> QED
  BY <1>1, <1>2, <1>3 DEF Denies, AssessmentDenies

LEMMA IntakeForbids ==
    ASSUME NEW recipe, NEW r, IsReport(r), evaluate_artifact_intake_gate(recipe, r) # "denied"
    PROVE  ~Forbids(r.findings)
<1> DEFINE view == IntakeView(r)
<1>1. view.findings = {f \in r.findings : f.category # "known-vulnerability"}
  BY DEF IntakeView, IsReport
<1>2. ~Denies(recipe, None, view, << >>, 0)
  BY DEF evaluate_artifact_intake_gate, evaluate_gate
<1> HIDE DEF view
<1>3. view # None
  BY <1>2 DEF Denies, slsa_policy_findings, ScanDefect, SlsaCategories
<1>4. \A f \in view.findings : ~finding_denies(f)
  BY <1>1, <1>2, <1>3 DEF Denies, AnsweredByAssessment
<1> QED
  BY <1>1, <1>4 DEF Forbids, Osv, finding_denies

LEMMA AllowedForbids ==
    ASSUME NEW recipe, NEW build, NEW scan,
           evaluate_gate(recipe, build, scan, << >>, 0) # "denied"
    PROVE  ~Forbids(scan.findings)
<1>1. ~Denies(recipe, build, scan, << >>, 0)
  BY DEF evaluate_gate
<1>2. scan # None
  BY <1>1 DEF Denies, slsa_policy_findings, ScanDefect, SlsaCategories
<1>3. \A f \in scan.findings : finding_denies(f) => f.category = "known-vulnerability"
  BY <1>1, <1>2 DEF Denies, AnsweredByAssessment
<1> QED
  BY <1>3 DEF Forbids, Osv, finding_denies

-----------------------------------------------------------------------------
(***************************************************************************)
(* The autonomous assessment.                                              *)
(***************************************************************************)
LEMMA FirstComponentIsOne ==
    ASSUME NEW components, FirstComponent(components) # None
    PROVE  FirstComponent(components) \in components
<1> DEFINE positions == Positions(components)
<1>1. positions # {}
  BY DEF FirstComponent
<1>2. positions \subseteq Nat
  BY OrderAssumption DEF Positions, Indices
<1>3. Min(positions) \in positions
  BY <1>1, <1>2, LeastIsFirst
<1>4. \E c \in components : KeyOf(c) = Catalogue[Min(positions)]
  BY <1>3 DEF Positions, Indices
<1> HIDE DEF positions
<1>5. FirstComponent(components) =
         CHOOSE c \in components : KeyOf(c) = Catalogue[Min(positions)]
  BY <1>1 DEF FirstComponent, positions
<1> QED
  BY <1>4, <1>5

\* What it takes to conclude that something is fixed.
LEMMA ConclusionIsProven ==
    ASSUME NEW a, IsAssessment(a), ReportOK(source), ReportOK(report)
    PROVE  /\ SameSubject(a, Conclusion(a))
           /\ Conclusion(a).status \in {"fixed", "under_investigation"}
           /\ Conclusion(a).status = "fixed" =>
                  /\ report.osv = "completed"
                  /\ \E s \in source.components, c \in report.components :
                        /\ s.name = a.component /\ c.name = a.component
                        /\ s.evidence = a.evidence
                        /\ ecosystem(s.kind) = ecosystem(c.kind)
                        /\ c.evidence = Conclusion(a).evidence
                        /\ s.version # c.version
<1> DEFINE s == SourceComponent(a)
           c == IF s = None THEN None ELSE ArtifactComponent(s)
           fixed == report.osv = "completed" /\ c # None /\ Changed(s, c)
           normalized(kind) == IF ecosystem(kind) = None THEN kind ELSE ecosystem(kind)
<1>1. Conclusion(a) = IF fixed THEN [a EXCEPT !.status = "fixed", !.evidence = c.evidence]
                      ELSE [a EXCEPT !.status = "under_investigation"]
  BY DEF Conclusion
<1>2. ASSUME fixed
      PROVE  /\ s \in source.components /\ s.name = a.component /\ s.evidence = a.evidence
             /\ c \in report.components /\ c.name = a.component
             /\ normalized(c.kind) = normalized(s.kind)
             /\ s.version # c.version
  <2>1. s # None /\ c = ArtifactComponent(s) /\ c # None
    BY <1>2
  <2>2. s \in {d \in source.components : d.name = a.component /\ d.evidence = a.evidence}
    BY <2>1, FirstComponentIsOne DEF SourceComponent
  <2>3. c \in {d \in report.components : /\ d.name = s.name
                                         /\ normalized(d.kind) = normalized(s.kind)}
    BY <2>1, FirstComponentIsOne DEF ArtifactComponent
  <2> QED
    BY <1>2, <2>2, <2>3 DEF Changed
<1>3. \A k, l \in ComponentKinds : normalized(k) = normalized(l) => ecosystem(k) = ecosystem(l)
  BY DEF ComponentKinds, ecosystem
<1>4. fixed => ecosystem(s.kind) = ecosystem(c.kind)
  BY <1>2, <1>3 DEF ReportOK
<1> HIDE DEF s, c
<1>5. CASE fixed
  <2>1. Conclusion(a) = [a EXCEPT !.status = "fixed", !.evidence = c.evidence]
    BY <1>1, <1>5
  <2>2. /\ Conclusion(a).status = "fixed" /\ Conclusion(a).evidence = c.evidence
        /\ SameSubject(a, Conclusion(a))
    BY <2>1 DEF IsAssessment, SameSubject
  <2> QED
    BY <1>2, <1>4, <1>5, <2>2
<1>6. CASE ~fixed
  <2>1. Conclusion(a) = [a EXCEPT !.status = "under_investigation"]
    BY <1>1, <1>6
  <2> QED
    BY <2>1 DEF IsAssessment, SameSubject
<1> QED
  BY <1>5, <1>6

-----------------------------------------------------------------------------
(***************************************************************************)
(* What the steps have in common.                                          *)
(***************************************************************************)
Props ==
    /\ FixedIsProven /\ SubjectsAnswered /\ MaterialsAreTheirs
    /\ InspectedIsClean /\ InspectedWasLookedUp

LEMMA NoVerdictYet ==
    ASSUME verdict' = None
    PROVE  Props'
BY InspectionAssumption
   DEF Props, FixedIsProven, SubjectsAnswered, MaterialsAreTheirs, InspectedIsClean,
       InspectedWasLookedUp

LEMMA NoVerdictBefore ==
    ASSUME RequestInv, pc # "done"
    PROVE  verdict = None
BY DEF RequestInv

LEMMA StillAsScanned ==
    ASSUME SourceIsAsScanned, UNCHANGED <<tree, touched, source, request>>,
           pc' \in {"unpack", "layer", "assess"} /\ request.kind = "build" =>
               pc \in {"unpack", "layer", "assess"}
    PROVE  SourceIsAsScanned'
BY DEF SourceIsAsScanned, FilesOf

LEMMA MoreIsAnswerable ==
    ASSUME NEW r, NEW s, Forbids(r.findings) \/ Answerable(r),
           r.findings \subseteq s.findings, s.filesystem = r.filesystem, s.raced = r.raced,
           \A a \in s.assessments : a \in r.assessments \/ is_osv_assessment(s, a)
    PROVE  Forbids(s.findings) \/ Answerable(s)
<1>1. Forbids(r.findings) => Forbids(s.findings)
  BY DEF Forbids
<1>2. \A a : is_osv_assessment(r, a) => is_osv_assessment(s, a)
  BY DEF is_osv_assessment
<1> QED
  BY <1>1, <1>2 DEF Answerable

\* The lookup of a layer does not touch what its scan has found.
LEMMA StillVouched ==
    ASSUME LookupInv, InLookup, LookupEnds \/ pc' = pc, UNCHANGED rootfs,
           report.findings \subseteq report'.findings, report'.components = report.components
    PROVE  pc' \in {"layer", "assess"} =>
               Forbids(report'.findings) \/ Vouched(report'.components, rootfs')
<1>1. pc' \in {"layer", "assess"} => pc = "layer"
  BY DEF InLookup, LookupEnds
<1>2. Forbids(report.findings) => Forbids(report'.findings)
  BY DEF Forbids
<1> QED
  BY <1>1, <1>2 DEF LookupInv

\* A step of a lookup: what it adds to the report, and where the request goes.
LEMMA LookupGoesOn ==
    ASSUME IInv, InLookup, UNCHANGED <<request, source, verdict, scanVars>>,
           IsReport(report'), report.findings \subseteq report'.findings,
           report'.components = report.components, report'.filesystem = report.filesystem,
           report'.raced = report.raced, report.assessments \subseteq report'.assessments,
           \A a \in report'.assessments : \/ a \in report.assessments
                                          \/ /\ IsAssessment(a) /\ is_osv_assessment(report', a)
                                             /\ a.status \in {"affected", "under_investigation"},
           LookupEnds \/ pc' = pc,
           LookupInv'
    PROVE  IInv'
<1>1. /\ pc \in {"source", "layer"}
      /\ pc' \in {pc, "done", "intake", "assess"}
      /\ pc' = "intake" => pc = "source" /\ request.kind = "build"
      /\ pc' = "assess" => pc = "layer" /\ request.kind = "build"
  BY DEF InLookup, LookupEnds
<1>2. RequestInv'
  BY <1>1 DEF IInv, RequestInv
<1>3. WalkInv'
  BY WalkRests DEF IInv
<1>4. ReportOK(report')
  BY <1>1 DEF IInv, ReportInv, ReportOK
<1>5. ReportInv'
  <2>1. Answerable(source)' <=> Answerable(source)
    BY DEF Answerable, is_osv_assessment, MaterialsFit
  <2>2. ASSUME pc \in {"source", "intake"}, request.kind = "build"
        PROVE  Forbids(report'.findings) \/ Answerable(report)'
    <3>1. Forbids(report.findings) \/ Answerable(report)
      BY <2>2 DEF IInv, ReportInv
    <3>2. Forbids(report'.findings) \/ Answerable(report')
      BY <3>1, MoreIsAnswerable
    <3> QED
      BY <3>2 DEF Answerable
  <2> QED
    BY <1>1, <1>4, <2>1, <2>2 DEF IInv, ReportInv
<1>6. SourceIsAsScanned'
  BY <1>1, StillAsScanned DEF IInv, scanVars
<1>7. Props'
  BY <1>1, NoVerdictBefore, NoVerdictYet DEF IInv
<1> QED
  BY <1>2, <1>3, <1>5, <1>6, <1>7 DEF IInv, Props

\* A step that leaves report and source as they are and no lookup behind it.
LEMMA ReportRests ==
    ASSUME IInv, UNCHANGED <<report, source, request>>, pc # "done",
           pc' \in {"idle", "walk", "intake", "rewalk", "unpack", "done"},
           pc' = "intake" => pc = "intake",
           pc' \in {"rewalk", "unpack"} /\ request.kind = "build" => pc = "rewalk"
    PROVE  ReportInv' /\ LookupInv'
<1>1. ReportOK(report)
  BY DEF IInv, ReportInv
<1>2. Answerable(source)' <=> Answerable(source)
  BY DEF Answerable, is_osv_assessment, MaterialsFit
<1>3. Answerable(report)' <=> Answerable(report)
  BY DEF Answerable, is_osv_assessment, MaterialsFit
<1>4. ReportInv'
  BY <1>1, <1>2, <1>3 DEF IInv, ReportInv
<1>5. LookupInv'
  BY DEF LookupInv
<1> QED
  BY <1>4, <1>5

-----------------------------------------------------------------------------
(***************************************************************************)
(* The steps of a lookup.                                                  *)
(***************************************************************************)
LEMMA LookupDisabledKeeps == IInv /\ LookupDisabled => IInv'
<1> SUFFICES ASSUME IInv, LookupDisabled PROVE IInv'
  OBVIOUS
<1> DEFINE added == {Finding("osv-lookup-disabled",
                             IF request.recipe.require_osv THEN "high" ELSE "info", None)}
<1>1. /\ InLookup /\ LookupEnds /\ request.mode = "disabled"
      /\ UNCHANGED <<request, rootfs, source, verdict, lookupVars, walkVars>>
      /\ report' = [report EXCEPT !.osv = "disabled", !.findings = @ \cup added]
  BY DEF LookupDisabled
<1>2. LookupRequired => Forbids(added)
  BY <1>1 DEF LookupRequired, Forbids, Finding, Osv
<1> HIDE DEF added
<1>3. ReportOK(report)
  BY <1>1 DEF IInv, ReportInv, InLookup
<1>4. /\ IsReport(report') /\ report'.osv = "disabled"
      /\ report'.findings = report.findings \cup added
      /\ report'.components = report.components /\ report'.filesystem = report.filesystem
      /\ report'.assessments = report.assessments /\ report'.raced = report.raced
  BY <1>1, <1>3 DEF ReportOK, IsReport
<1>5. pc \in {"source", "layer"} /\ pc' \in {"done", "intake", "assess"}
      /\ (pc' = "assess" => pc = "layer")
  BY <1>1 DEF InLookup, LookupEnds
<1>6. LookupRequired' => Forbids(report'.findings)
  BY <1>1, <1>2, <1>4 DEF LookupRequired, Forbids
<1>7. pc' \in {"layer", "assess"} =>
         Forbids(report'.findings) \/ Vouched(report'.components, rootfs')
  BY <1>1, <1>4, StillVouched DEF IInv
<1>8. LookupInv'
  BY <1>1, <1>4, <1>5, <1>6, <1>7 DEF IInv, LookupInv, lookupVars
<1> QED
  BY <1>1, <1>4, <1>8, LookupGoesOn DEF walkVars

LEMMA NothingToLookUpKeeps == IInv /\ NothingToLookUp => IInv'
<1> SUFFICES ASSUME IInv, NothingToLookUp PROVE IInv'
  OBVIOUS
<1>1. /\ InLookup /\ LookupEnds /\ Queries = {}
      /\ UNCHANGED <<request, rootfs, source, verdict, lookupVars, walkVars>>
      /\ report' = [report EXCEPT !.osv = "not_applicable"]
  BY DEF NothingToLookUp
<1>2. ReportOK(report)
  BY <1>1 DEF IInv, ReportInv, InLookup
<1>3. /\ IsReport(report') /\ report'.osv = "not_applicable"
      /\ report'.findings = report.findings
      /\ report'.components = report.components /\ report'.filesystem = report.filesystem
      /\ report'.assessments = report.assessments /\ report'.raced = report.raced
  BY <1>1, <1>2 DEF ReportOK, IsReport
<1>4. pc \in {"source", "layer"} /\ pc' \in {"done", "intake", "assess"}
      /\ (pc' = "assess" => pc = "layer")
  BY <1>1 DEF InLookup, LookupEnds
<1>5. Queries' = {}
  BY <1>1, <1>3 DEF Queries
<1>6. pc' \in {"layer", "assess"} =>
         Forbids(report'.findings) \/ Vouched(report'.components, rootfs')
  BY <1>1, <1>3, StillVouched DEF IInv
<1>7. LookupInv'
  BY <1>1, <1>3, <1>4, <1>5, <1>6 DEF IInv, LookupInv, lookupVars
<1> QED
  BY <1>1, <1>3, <1>7, LookupGoesOn DEF walkVars

LEMMA FinishLookupKeeps == IInv /\ FinishLookup => IInv'
<1> SUFFICES ASSUME IInv, FinishLookup PROVE IInv'
  OBVIOUS
<1> DEFINE outcome == IF osv_failed THEN "failed" ELSE "completed"
<1>1. /\ InLookup /\ LookupEnds
      /\ UNCHANGED <<request, rootfs, source, verdict, lookupVars, walkVars>>
      /\ report' = [report EXCEPT !.osv = outcome, !.findings = @ \cup FailureFinding]
      /\ Queries \subseteq sent
  BY DEF FinishLookup
<1>2. ReportOK(report)
  BY <1>1 DEF IInv, ReportInv, InLookup
<1>3. /\ IsReport(report') /\ report'.osv = outcome
      /\ report'.findings = report.findings \cup FailureFinding
      /\ report'.components = report.components /\ report'.filesystem = report.filesystem
      /\ report'.assessments = report.assessments /\ report'.raced = report.raced
  BY <1>1, <1>2 DEF ReportOK, IsReport
<1>4. pc \in {"source", "layer"} /\ pc' \in {"done", "intake", "assess"}
      /\ (pc' = "assess" => pc = "layer")
  BY <1>1 DEF InLookup, LookupEnds
<1>5. LookupRequired /\ osv_failed => Forbids(FailureFinding)
  <2> SUFFICES ASSUME LookupRequired, osv_failed PROVE Forbids(FailureFinding)
    OBVIOUS
  <2>1. Finding("osv-lookup-failed", "high", None) \in FailureFinding
    BY DEF FailureFinding, LookupRequired
  <2> QED
    BY <2>1 DEF Forbids, Finding, Osv
<1>6. pc' \in {"layer", "assess"} =>
         Forbids(report'.findings) \/ Vouched(report'.components, rootfs')
  BY <1>1, <1>3, StillVouched DEF IInv
<1>7. LookupInv'
  <2>1. /\ Queries' = Queries /\ UNCHANGED <<matches, sent, osv_failed>>
        /\ LookupRequired' <=> LookupRequired
    BY <1>1, <1>3 DEF Queries, lookupVars, LookupRequired
  <2>2. ASSUME pc' = "assess", ~osv_failed PROVE \A c \in Queries : Answered(c)'
    BY <1>1, <1>4, <2>1, <2>2 DEF IInv, LookupInv, Answered
  <2>3. osv_failed /\ LookupRequired => Forbids(report'.findings)
    BY <1>3, <1>5 DEF Forbids
  <2> QED
    BY <1>3, <1>4, <1>6, <2>1, <2>2, <2>3 DEF IInv, LookupInv
<1> QED
  BY <1>1, <1>3, <1>7, LookupGoesOn DEF walkVars

LEMMA ChunkFailsKeeps == IInv /\ ChunkFails => IInv'
<1> SUFFICES ASSUME IInv, ChunkFails PROVE IInv'
  OBVIOUS
<1>1. /\ InLookup /\ osv_failed' = TRUE
      /\ UNCHANGED <<pc, request, rootfs, source, report, matches, verdict, walkVars>>
  BY DEF ChunkFails, Sending
<1>2. ReportOK(report)
  BY <1>1 DEF IInv, ReportInv, InLookup
<1>3. LookupInv'
  BY <1>1 DEF IInv, LookupInv, InLookup
<1> QED
  BY <1>1, <1>2, <1>3, LookupGoesOn DEF walkVars, ReportOK

LEMMA ChunkAnsweredKeeps ==
    ASSUME IInv, NEW advisories, ChunkAnswered(advisories)
    PROVE  IInv'
<1> DEFINE status == IF pc = "layer" THEN "affected" ELSE "under_investigation"
           matched == Matched(Chunk, advisories)
           findings == {FindingOf(m[1], m[2]) : m \in matched}
           assessments == {AssessmentOf(m[1], m[2], status) : m \in matched}
           answers == {<<c, VulnerabilitiesOf(c, advisories)>> : c \in Chunk}
<1>1. /\ InLookup
      /\ report' = [report EXCEPT !.findings = @ \cup findings,
                                  !.assessments = @ \cup assessments]
      /\ sent' = sent \cup Chunk
      /\ matches' = matches \cup answers
      /\ UNCHANGED <<pc, request, rootfs, source, osv_failed, verdict, walkVars>>
  BY DEF ChunkAnswered, Sending
<1>2. ReportOK(report)
  BY <1>1 DEF IInv, ReportInv, InLookup
<1>3. \A a \in assessments :
         /\ IsAssessment(a) /\ a.status \in {"affected", "under_investigation"}
         /\ \E f \in findings : /\ f.category = "known-vulnerability"
                                /\ f.evidence = a.evidence
                                /\ a.vulnerability \in f.mentions
  <2> SUFFICES ASSUME NEW m \in matched
               PROVE  LET a == AssessmentOf(m[1], m[2], status)
                          f == FindingOf(m[1], m[2])
                      IN  /\ IsAssessment(a) /\ a.status \in {"affected", "under_investigation"}
                          /\ f \in findings
                          /\ f.category = "known-vulnerability"
                          /\ f.evidence = a.evidence
                          /\ a.vulnerability \in f.mentions
    OBVIOUS
  <2> QED
    BY DEF AssessmentOf, FindingOf, Finding, IsAssessment
<1>4. \A m \in answers : \A v \in m[2] : AssessmentOf(m[1], v, status) \in assessments
  <2> SUFFICES ASSUME NEW c \in Chunk, NEW v \in VulnerabilitiesOf(c, advisories)
               PROVE  AssessmentOf(c, v, status) \in assessments
    OBVIOUS
  <2>1. <<c, v>> \in matched
    BY DEF Matched
  <2> HIDE DEF matched, status
  <2>2. \E m \in matched : AssessmentOf(c, v, status) = AssessmentOf(m[1], m[2], status)
    BY <2>1
  <2> QED
    BY <2>2
<1>5. \A c \in Chunk : \E m \in answers : m[1] = c
  <2> SUFFICES ASSUME NEW c \in Chunk PROVE \E m \in answers : m[1] = c
    OBVIOUS
  <2>1. <<c, VulnerabilitiesOf(c, advisories)>> \in answers
    OBVIOUS
  <2> HIDE DEF answers
  <2> QED
    BY <2>1
<1> HIDE DEF findings, assessments, answers
<1>6. /\ IsReport(report')
      /\ report'.findings = report.findings \cup findings
      /\ report'.components = report.components /\ report'.filesystem = report.filesystem
      /\ report'.assessments = report.assessments \cup assessments
      /\ report'.raced = report.raced
  BY <1>1, <1>2 DEF ReportOK, IsReport
<1>7. \A a \in assessments : is_osv_assessment(report', a)
  BY <1>3, <1>6 DEF is_osv_assessment
<1>8. LookupInv'
  <2>1. pc' = pc /\ pc \in {"source", "layer"}
    BY <1>1 DEF InLookup
  <2>2. pc = "layer" => \A m \in matches' : \A v \in m[2] :
           AssessmentOf(m[1], v, "affected") \in report'.assessments
    BY <1>1, <1>4, <1>6 DEF IInv, LookupInv
  <2>3. pc = "layer" => osv_failed' \/ \A c \in sent' : Answered(c)'
    BY <1>1, <1>5 DEF IInv, LookupInv, Answered
  <2>4. pc' \in {"layer", "assess"} =>
           Forbids(report'.findings) \/ Vouched(report'.components, rootfs')
    BY <1>1, <1>6, StillVouched DEF IInv
  <2> QED
    BY <2>1, <2>2, <2>3, <2>4 DEF LookupInv
<1> QED
  BY <1>1, <1>3, <1>6, <1>7, <1>8, LookupGoesOn DEF walkVars

-----------------------------------------------------------------------------
(***************************************************************************)
(* The other steps of a request.                                           *)
(***************************************************************************)
LEMMA BeginKeeps ==
    ASSUME IInv, NEW q \in Requests, Begin(q)
    PROVE  IInv'
<1>1. /\ pc = "idle" /\ pc' = "walk" /\ request' = q /\ q.kind # "image"
      /\ tree' = q.tree /\ StartWalk(q.tree)
      /\ UNCHANGED <<rootfs, source, report, verdict, lookupVars, edits>>
  BY DEF Begin
<1>2. verdict = None
  BY <1>1, NoVerdictBefore DEF IInv
<1>3. RequestInv'
  BY <1>1, <1>2 DEF RequestInv
<1>4. WalkInv'
  BY <1>1, InspectionAssumption, WalkStarts
<1>5. ReportInv' /\ LookupInv' /\ SourceIsAsScanned'
  BY <1>1 DEF IInv, ReportInv, LookupInv, SourceIsAsScanned
<1>6. Props'
  BY <1>1, <1>2, NoVerdictYet
<1> QED
  BY <1>3, <1>4, <1>5, <1>6 DEF IInv, Props

LEMMA BeginScanKeeps ==
    ASSUME IInv, NEW q \in Requests, BeginScan(q)
    PROVE  IInv'
<1>1. /\ pc = "idle" /\ pc' = "unpack" /\ request' = q /\ q.kind = "image"
      /\ UNCHANGED <<rootfs, source, report, verdict, lookupVars, walkVars>>
  BY DEF BeginScan
<1>2. verdict = None
  BY <1>1, NoVerdictBefore DEF IInv
<1>3. RequestInv'
  BY <1>1, <1>2 DEF RequestInv
<1>4. WalkInv'
  BY <1>1, WalkRests DEF IInv, walkVars
<1>5. ReportInv' /\ LookupInv' /\ SourceIsAsScanned'
  BY <1>1 DEF IInv, ReportInv, LookupInv, SourceIsAsScanned
<1>6. Props'
  BY <1>1, <1>2, NoVerdictYet
<1> QED
  BY <1>3, <1>4, <1>5, <1>6 DEF IInv, Props

LEMMA WalkKeeps == IInv /\ Walk => IInv'
<1> SUFFICES ASSUME IInv, Walk PROVE IInv'
  OBVIOUS
<1>1. /\ pc \in {"walk", "rewalk"} /\ WalkStep(request.recipe)
      /\ UNCHANGED <<pc, request, rootfs, source, report, verdict, lookupVars, edits>>
  BY DEF Walk, Walking
<1>2. verdict = None
  BY <1>1, NoVerdictBefore DEF IInv
<1>3. RequestInv'
  BY <1>1 DEF IInv, RequestInv
<1>4. WalkInv'
  BY <1>1, StepIsSeen DEF IInv
<1>5. ReportInv' /\ LookupInv'
  BY <1>1, ReportRests
<1>6. SourceIsAsScanned' /\ Props'
  BY <1>1, <1>2, NoVerdictYet DEF SourceIsAsScanned
<1> QED
  BY <1>3, <1>4, <1>5, <1>6 DEF IInv, Props

LEMMA EditKeeps == IInv /\ Edit => IInv'
<1> SUFFICES ASSUME IInv, Edit PROVE IInv'
  OBVIOUS
<1>1. PICK e \in request.edits : EditTree(e.path, e.node)
  BY DEF Edit
<1>2. /\ pc \in {"walk", "source", "intake", "rewalk"}
      /\ UNCHANGED <<pc, request, rootfs, source, report, verdict, lookupVars>>
  BY DEF Edit
<1>3. request \in Requests /\ request.kind # "image"
  BY <1>2 DEF IInv, RequestInv
<1>4. e.path # None /\ (e.node # None => e.node.kind = "file" /\ IsNode(e.node))
  BY <1>3, InspectionAssumption
<1>5. WalkInv'
  BY <1>1, <1>4, EditIsSeen DEF IInv
<1>6. verdict = None
  BY <1>2, NoVerdictBefore DEF IInv
<1>7. RequestInv'
  BY <1>2 DEF IInv, RequestInv
<1>8. ReportInv'
  <2>1. /\ Answerable(source)' <=> Answerable(source)
        /\ Answerable(report)' <=> Answerable(report)
    BY <1>2 DEF Answerable, is_osv_assessment, MaterialsFit
  <2> QED
    BY <1>2, <2>1 DEF IInv, ReportInv
<1>9. LookupInv' /\ SourceIsAsScanned' /\ Props'
  BY <1>2, <1>6, NoVerdictYet DEF LookupInv, SourceIsAsScanned
<1> QED
  BY <1>5, <1>7, <1>8, <1>9 DEF IInv, Props

\* The request fails, and nothing is recorded for it.
LEMMA FailureKeeps ==
    ASSUME IInv, pc # "done", pc' = "done",
           UNCHANGED <<request, source, report, verdict, lookupVars, walkVars>>
    PROVE  IInv'
<1>1. verdict = None
  BY NoVerdictBefore DEF IInv
<1>2. RequestInv'
  BY <1>1 DEF IInv, RequestInv
<1>3. WalkInv'
  BY WalkRests DEF IInv, walkVars
<1>4. ReportInv' /\ LookupInv'
  BY DEF ReportInv, LookupInv
<1>5. SourceIsAsScanned' /\ Props'
  BY <1>1, NoVerdictYet DEF SourceIsAsScanned
<1> QED
  BY <1>2, <1>3, <1>4, <1>5 DEF IInv, Props

LEMMA FinishWalkKeeps == IInv /\ FinishWalk => IInv'
<1> SUFFICES ASSUME IInv, FinishWalk PROVE IInv'
  OBVIOUS
<1> DEFINE scanned == compare_recipe_metadata(request.recipe, scanner, VerifiesMaterials)
           made == Report(scanned, request.recipe, {})
<1>1. /\ pc = "walk" /\ pc' = "source"
      /\ report' = [made EXCEPT !.raced = raced]
      /\ UNCHANGED <<request, rootfs, source, verdict, lookupVars, walkVars>>
  BY DEF FinishWalk
<1>2. verdict = None
  BY <1>1, NoVerdictBefore DEF IInv
<1>3. /\ Sound(scanned) /\ scanned.digests = scanner.digests
      /\ request.kind = "build" =>
             Forbids(scanned.findings) \/ MaterialsFit(request.recipe, scanned.digests)
      /\ Forbids(scanned.findings) \/ CleanExcept(scanned.digests, raced)
  <2>1. Sound(scanner)
    BY DEF IInv, WalkInv
  <2>2. /\ Sound(scanned) /\ scanned.digests = scanner.digests /\ Retains(scanner, scanned)
        /\ Forbids(scanned.findings) \/ scanner.requires \subseteq scanner.checksums
        /\ VerifiesMaterials = TRUE =>
               Forbids(scanned.findings) \/ MaterialsFit(request.recipe, scanner.digests)
    BY <2>1, ComparedIsSound
  <2>3. request.kind = "build" => VerifiesMaterials = TRUE
    BY DEF VerifiesMaterials
  <2> HIDE DEF scanned
  <2>4. ASSUME ~Forbids(scanned.findings) PROVE CleanExcept(scanner.digests, raced)
    <3>1. ~Forbids(scanner.findings) /\ scanner.requires \subseteq scanner.checksums
      BY <2>2, <2>4 DEF Retains, Forbids
    <3> QED
      BY <3>1, VettedIsClean DEF IInv, WalkInv, VettingInv
  <2> QED
    BY <2>2, <2>3, <2>4
<1> HIDE DEF scanned
<1>4. /\ ReportOK(made) /\ made.findings = scanned.findings
      /\ made.assessments = scanned.candidates /\ made.filesystem = scanned.digests
  BY <1>3, ReportIsOK
<1> HIDE DEF made
<1>5. /\ ReportOK(report') /\ report'.findings = scanned.findings
      /\ report'.assessments = scanned.candidates /\ report'.filesystem = scanned.digests
      /\ report'.raced = raced
  BY <1>1, <1>4 DEF ReportOK, IsReport
<1>6. request.kind = "build" => Forbids(report'.findings) \/ Answerable(report)'
  BY <1>1, <1>3, <1>5 DEF Sound, Answerable
<1>7. ReportInv' /\ LookupInv' /\ SourceIsAsScanned'
  BY <1>1, <1>5, <1>6 DEF ReportInv, LookupInv, SourceIsAsScanned
<1>8. RequestInv' /\ WalkInv'
  BY <1>1, <1>2, WalkRests DEF IInv, RequestInv, walkVars
<1>9. Props'
  BY <1>1, <1>2, NoVerdictYet
<1> QED
  BY <1>7, <1>8, <1>9 DEF IInv, Props

LEMMA IntakeKeeps == IInv /\ Intake => IInv'
<1> SUFFICES ASSUME IInv, Intake PROVE IInv'
  OBVIOUS
<1>1. /\ pc = "intake" /\ source' = report
      /\ UNCHANGED <<request, rootfs, report, lookupVars, edits, tree>>
  BY DEF Intake
<1>2. verdict = None /\ request.kind = "build" /\ ReportOK(report)
  BY <1>1, NoVerdictBefore DEF IInv, RequestInv, ReportInv
<1>3. CASE evaluate_artifact_intake_gate(request.recipe, report) = "denied"
  <2>1. /\ pc' = "done" /\ verdict' = "denied" /\ UNCHANGED scanVars
    BY <1>1, <1>3 DEF Intake, scanVars
  <2>2. RequestInv' /\ WalkInv'
    BY <1>1, <2>1, WalkRests DEF IInv, RequestInv
  <2>3. ReportInv' /\ LookupInv' /\ SourceIsAsScanned'
    BY <2>1 DEF ReportInv, LookupInv, SourceIsAsScanned
  <2>4. \A a \in report'.assessments : a.status # "fixed"
    BY <1>1, <1>2 DEF ReportOK
  <2>5. Props'
    BY <2>1, <2>4 DEF Props, FixedIsProven, SubjectsAnswered, MaterialsAreTheirs,
       InspectedIsClean, InspectedWasLookedUp
  <2> QED
    BY <2>2, <2>3, <2>5 DEF IInv, Props
<1>4. CASE evaluate_artifact_intake_gate(request.recipe, report) # "denied"
  <2>1. pc' = "rewalk" /\ UNCHANGED verdict /\ StartWalk(tree)
    BY <1>1, <1>4 DEF Intake
  <2>2. RequestInv'
    BY <1>1, <1>2, <2>1 DEF IInv, RequestInv
  <2>3. WalkInv'
    BY <1>1, <2>1, WalkStarts DEF IInv, WalkInv
  <2>4. Answerable(report)
    BY <1>1, <1>2, <1>4, IntakeForbids DEF IInv, ReportInv, ReportOK
  <2>5. Answerable(source)'
    BY <1>1, <2>4 DEF Answerable, is_osv_assessment, MaterialsFit
  <2>6. ReportInv' /\ LookupInv' /\ SourceIsAsScanned'
    BY <1>1, <1>2, <2>1, <2>5 DEF ReportInv, LookupInv, SourceIsAsScanned
  <2>7. Props'
    BY <1>2, <2>1, NoVerdictYet
  <2> QED
    BY <2>2, <2>3, <2>6, <2>7 DEF IInv, Props
<1> QED
  BY <1>3, <1>4

LEMMA RecheckKeeps == IInv /\ Recheck => IInv'
<1> SUFFICES ASSUME IInv, Recheck PROVE IInv'
  OBVIOUS
<1>1. /\ pc = "rewalk" /\ WalkOver
      /\ pc' = IF ~Incomplete /\ scanner.digests = source.filesystem THEN "unpack" ELSE "done"
      /\ UNCHANGED <<request, rootfs, source, report, verdict, lookupVars, walkVars>>
  BY DEF Recheck
<1>2. CASE pc' = "done"
  BY <1>1, <1>2, FailureKeeps
<1>3. CASE pc' = "unpack"
  <2>1. visiting.path = None /\ due = {} /\ scanner.digests = source.filesystem
    BY <1>1, <1>3 DEF WalkOver
  <2>2. \A p \in FilesOf(tree) : p # None
    BY DEF FilesOf, IInv, WalkInv
  <2>3. ASSUME NEW p \in FilesOf(tree) \cup DOMAIN source.filesystem, p \notin touched
        PROVE  /\ p \in FilesOf(tree) \cap DOMAIN source.filesystem
               /\ source.filesystem[p] = Digested(tree[p].kind, tree[p].content)
    <3>1. p \in DOMAIN source.filesystem
      BY <2>1, <2>2, <2>3 DEF IInv, WalkInv
    <3> QED
      BY <2>1, <2>3, <3>1 DEF IInv, WalkInv, IsAs
  <2>4. SourceIsAsScanned'
    BY <1>1, <2>3 DEF SourceIsAsScanned, FilesOf, walkVars, scanVars
  <2>5. verdict = None
    BY <1>1, NoVerdictBefore DEF IInv
  <2>6. RequestInv' /\ WalkInv'
    BY <1>1, <1>3, <2>5, WalkRests DEF IInv, RequestInv, walkVars
  <2>7. ReportInv' /\ LookupInv'
    BY <1>1, <1>3, ReportRests
  <2>8. Props'
    BY <1>1, <2>5, NoVerdictYet
  <2> QED
    BY <2>4, <2>6, <2>7, <2>8 DEF IInv, Props
<1> QED
  BY <1>1, <1>2, <1>3

LEMMA UnpackKeeps == IInv /\ Unpack => IInv'
<1> SUFFICES ASSUME IInv, Unpack PROVE IInv'
  OBVIOUS
<1>1. /\ pc = "unpack" /\ pc' = "layer" /\ sent' = {} /\ osv_failed' = FALSE /\ matches' = {}
      /\ report' \in LayerReports(rootfs', request.recipe, Covered)
      /\ UNCHANGED <<request, source, verdict, walkVars>>
  BY DEF Unpack
<1>2. verdict = None
  BY <1>1, NoVerdictBefore DEF IInv
<1>3. ReportOK(report') /\ (Forbids(report'.findings) \/ Vouched(report'.components, rootfs'))
  BY <1>1, LayerReportsAreOK
<1>4. Answerable(source)' <=> Answerable(source)
  BY <1>1 DEF Answerable, is_osv_assessment, MaterialsFit
<1>5. ReportInv'
  BY <1>1, <1>3, <1>4 DEF IInv, ReportInv
<1>6. LookupInv'
  BY <1>1, <1>3 DEF LookupInv
<1>7. RequestInv' /\ WalkInv'
  BY <1>1, <1>2, WalkRests DEF IInv, RequestInv, walkVars
<1>8. SourceIsAsScanned'
  BY <1>1, StillAsScanned DEF IInv, walkVars, scanVars
<1>9. Props'
  BY <1>1, <1>2, NoVerdictYet
<1> QED
  BY <1>5, <1>6, <1>7, <1>8, <1>9 DEF IInv, Props

LEMMA AnswerKeeps == IInv /\ Answer => IInv'
<1> SUFFICES ASSUME IInv, Answer PROVE IInv'
  OBVIOUS
<1>1. /\ pc' = "idle" /\ report' = NoReport /\ source' = NoReport /\ verdict' = None
      /\ tree' = << >> /\ StartWalk(<< >>)
  BY DEF Answer
<1>2. RequestInv'
  BY <1>1 DEF RequestInv
<1>3. WalkInv'
  BY <1>1, WalkStarts
<1>4. ReportInv' /\ LookupInv' /\ SourceIsAsScanned'
  BY <1>1 DEF ReportInv, LookupInv, SourceIsAsScanned, ReportOK, IsReport, NoReport
<1>5. Props'
  BY <1>1, NoVerdictYet
<1> QED
  BY <1>2, <1>3, <1>4, <1>5 DEF IInv, Props

LEMMA AssessKeeps == IInv /\ Assess => IInv'
<1> SUFFICES ASSUME IInv, Assess PROVE IInv'
  OBVIOUS
<1>1. PICK assessments \in AppliedTo(report.assessments) :
         report' = [report EXCEPT !.assessments = assessments]
  BY DEF Assess
<1>2. /\ pc = "assess" /\ pc' = "done"
      /\ verdict' = evaluate_gate(request.recipe, Build, report', << >>, 0)
      /\ UNCHANGED <<request, rootfs, source, lookupVars, walkVars>>
  BY DEF Assess
<1>3. PICK chosen \in SUBSET ToAssess :
         /\ assessments = report.assessments \cup {Conclusion(a) : a \in chosen}
         /\ \A a \in ToAssess : \E b \in chosen \cup report.assessments : SameSubject(a, b)
  BY <1>1 DEF AppliedTo
<1>4. /\ request.kind = "build" /\ ReportOK(report) /\ ReportOK(source) /\ Answerable(source)
  BY <1>2 DEF IInv, RequestInv, ReportInv
<1>5. /\ report'.assessments = assessments /\ report'.components = report.components
      /\ report'.osv = report.osv /\ report'.findings = report.findings
  BY <1>1, <1>4 DEF ReportOK, IsReport
<1>6. \A a \in chosen : /\ a \in source.assessments /\ IsAssessment(a)
                        /\ ~ArtifactIsAffected(a)
  BY <1>4 DEF ToAssess, ReportOK
<1>7. verdict' \in {"allowed", "denied"}
  BY <1>2 DEF evaluate_gate
<1>8. ASSUME NEW a \in chosen, Conclusion(a).status = "fixed"
      PROVE  /\ \A c \in Queries : \E m \in matches : m[1] = c
             /\ \A m \in matches : m[1].name = a.component => a.vulnerability \notin m[2]
             /\ SameSubject(a, Conclusion(a))
             /\ \E s \in source.components, c \in report.components :
                   /\ s.name = a.component /\ c.name = a.component
                   /\ s.evidence = a.evidence
                   /\ ecosystem(s.kind) = ecosystem(c.kind)
                   /\ c.evidence = Conclusion(a).evidence
                   /\ s.version # c.version
  <2>1. /\ SameSubject(a, Conclusion(a)) /\ report.osv = "completed"
        /\ \E s \in source.components, c \in report.components :
              /\ s.name = a.component /\ c.name = a.component
              /\ s.evidence = a.evidence
              /\ ecosystem(s.kind) = ecosystem(c.kind)
              /\ c.evidence = Conclusion(a).evidence
              /\ s.version # c.version
    BY <1>4, <1>6, <1>8, ConclusionIsProven
  <2>2. \A c \in Queries : \E m \in matches : m[1] = c
    BY <1>2, <2>1 DEF IInv, LookupInv, Answered
  <2>3. ASSUME NEW m \in matches, m[1].name = a.component, a.vulnerability \in m[2]
        PROVE  FALSE
    <3>1. AssessmentOf(m[1], a.vulnerability, "affected") \in report.assessments
      BY <1>2, <2>3 DEF IInv, LookupInv
    <3>2. ArtifactIsAffected(a)
      BY <2>3, <3>1 DEF ArtifactIsAffected, AssessmentOf
    <3> QED
      BY <1>6, <3>2
  <2> QED
    BY <2>1, <2>2, <2>3
<1>9. /\ Queries' = Queries /\ matches' = matches /\ source' = source
      /\ report'.components = report.components
  BY <1>2, <1>5 DEF Queries, lookupVars
<1>10. FixedIsProven'
  <2> SUFFICES ASSUME NEW b \in report'.assessments, b.status = "fixed"
               PROVE  /\ \A c \in Queries' : \E m \in matches' : m[1] = c
                      /\ \A m \in matches' : m[1].name = b.component => b.vulnerability \notin m[2]
                      /\ \E s \in source'.components, c \in report'.components :
                            /\ s.name = b.component /\ c.name = b.component
                            /\ ecosystem(s.kind) = ecosystem(c.kind) /\ c.evidence = b.evidence
                            /\ s.version # c.version
    BY DEF FixedIsProven
  <2>1. b \notin report.assessments
    BY <1>4 DEF ReportOK
  <2>2. PICK a \in chosen : b = Conclusion(a)
    BY <1>3, <1>5, <2>1
  <2> QED
    BY <1>8, <1>9, <2>2 DEF SameSubject
<1>11. SubjectsAnswered'
  <2> SUFFICES ASSUME verdict' = "allowed", NEW a \in source.assessments
               PROVE  \E b \in source.assessments : SameSubject(a, b) /\ AnsweredInLayer(b)'
    BY <1>9 DEF SubjectsAnswered
  <2>1. \A b \in assessments : b.status \notin {"affected", "under_investigation"}
    BY <1>2, <1>5, AllowedIsConclusive
  <2>2. report.assessments = {}
    BY <1>3, <1>4, <2>1 DEF ReportOK
  <2>3. a \in ToAssess
    BY <1>4, <2>2 DEF Answerable, ToAssess, ArtifactIsAffected
  <2>4. PICK b \in chosen : SameSubject(a, b)
    BY <1>3, <2>2, <2>3
  <2>5. Conclusion(b).status = "fixed"
    <3>1. Conclusion(b).status \in {"fixed", "under_investigation"}
      BY <1>4, <1>6, <2>4, ConclusionIsProven
    <3>2. Conclusion(b) \in assessments
      BY <1>3, <2>4
    <3> QED
      BY <2>1, <3>1, <3>2
  <2>6. AnsweredInLayer(b)'
    BY <1>8, <1>9, <2>4, <2>5 DEF AnsweredInLayer
  <2> QED
    BY <1>6, <2>4, <2>6
<1>12. MaterialsAreTheirs'
  BY <1>2, <1>4 DEF Answerable, MaterialsFit, MaterialsAreTheirs
<1>13. RequestInv' /\ WalkInv'
  BY <1>2, <1>7, WalkRests DEF IInv, RequestInv, walkVars
<1>14. ReportInv' /\ LookupInv' /\ SourceIsAsScanned'
  BY <1>2 DEF ReportInv, LookupInv, SourceIsAsScanned
<1>15. ASSUME verdict' = "allowed"
       PROVE  ~Forbids(report.findings) /\ Vouched(report.components, rootfs)
  <2>1. ~Forbids(report'.findings)
    BY <1>2, <1>15, AllowedForbids
  <2> QED
    BY <1>2, <1>5, <2>1 DEF IInv, LookupInv
<1>16. InspectedIsClean'
  BY <1>2, <1>4, <1>15 DEF Answerable, Vouched, InspectedIsClean
<1>17. InspectedWasLookedUp'
  <2> SUFFICES ASSUME verdict' = "allowed", LookupRequired,
                      NEW p \in DOMAIN rootfs, rootfs[p].kind = "file", IsText(rootfs[p].content),
                      NEW c \in Parsed(p, rootfs[p].content).components, ecosystem(c.kind) # None
               PROVE  \E m \in matches : KeyOf(m[1]) = c /\ m[2] = {}
    BY <1>2 DEF InspectedWasLookedUp, LookupRequired, lookupVars
  <2>1. PICK d \in report.components : KeyOf(d) = c
    BY <1>15 DEF Vouched, Lists
  <2>2. d \in Queries
    BY <2>1 DEF Queries, KeyOf, Component
  <2>3. PICK m \in matches : m[1] = d
    BY <1>2, <1>15, <2>2 DEF IInv, LookupInv, Answered
  <2>4. ASSUME NEW v \in m[2] PROVE FALSE
    <3>1. AssessmentOf(m[1], v, "affected") \in assessments
      BY <1>2, <1>3, <2>3 DEF IInv, LookupInv
    <3>2. \A b \in assessments : b.status \notin {"affected", "under_investigation"}
      BY <1>2, <1>5, AllowedIsConclusive
    <3> QED
      BY <3>1, <3>2 DEF AssessmentOf
  <2> QED
    BY <2>1, <2>3, <2>4
<1> QED
  BY <1>10, <1>11, <1>12, <1>13, <1>14, <1>16, <1>17 DEF IInv

LEMMA StutterKeeps == IInv /\ UNCHANGED vars => IInv'
<1> SUFFICES ASSUME IInv, UNCHANGED vars PROVE IInv'
  OBVIOUS
<1>1. UNCHANGED <<pc, request, rootfs, source, report, verdict, sent, osv_failed, matches>>
  BY DEF vars, lookupVars
<1>2. UNCHANGED <<edits, tree, scanner, due, visiting, raced, touched>>
  BY DEF vars, walkVars, scanVars
<1>3. RequestInv' /\ WalkInv'
  BY <1>1, <1>2, WalkRests DEF IInv, RequestInv, scanVars
<1>4. ReportInv'
  <2>1. /\ Answerable(source)' <=> Answerable(source)
        /\ Answerable(report)' <=> Answerable(report)
    BY <1>1 DEF Answerable, is_osv_assessment, MaterialsFit
  <2> QED
    BY <1>1, <2>1 DEF IInv, ReportInv
<1>5. LookupInv'
  BY <1>1 DEF IInv, LookupInv, Answered, Queries, LookupRequired
<1>6. SourceIsAsScanned'
  BY <1>1, <1>2 DEF IInv, SourceIsAsScanned, FilesOf
<1>7. FixedIsProven' /\ SubjectsAnswered' /\ MaterialsAreTheirs'
  BY <1>1 DEF IInv, FixedIsProven, SubjectsAnswered, AnsweredInLayer, MaterialsAreTheirs, Queries
<1>8. InspectedIsClean' /\ InspectedWasLookedUp'
  BY <1>1 DEF IInv, InspectedIsClean, InspectedWasLookedUp, LookupRequired
<1> QED
  BY <1>3, <1>4, <1>5, <1>6, <1>7, <1>8 DEF IInv

-----------------------------------------------------------------------------
(***************************************************************************)
(* The theorems.                                                           *)
(***************************************************************************)
\* The invariant holds in every state of every behaviour.
THEOREM Invariance == Spec => []IInv
<1>1. IInv /\ [Next]_vars => IInv'
  <2> SUFFICES ASSUME IInv, [Next]_vars PROVE IInv'
    OBVIOUS
  <2>1. CASE \E q \in Requests : Begin(q) \/ BeginScan(q)
    BY <2>1, BeginKeeps, BeginScanKeeps
  <2>2. CASE Walk \/ FinishWalk \/ Edit
    BY <2>2, WalkKeeps, FinishWalkKeeps, EditKeeps
  <2>3. CASE WalkFails \/ UnpackFails
    BY <2>3, FailureKeeps DEF WalkFails, Walking, UnpackFails
  <2>4. CASE LookupDisabled \/ NothingToLookUp \/ ChunkFails \/ FinishLookup
    BY <2>4, LookupDisabledKeeps, NothingToLookUpKeeps, ChunkFailsKeeps, FinishLookupKeeps
  <2>5. CASE \E advisories \in SUBSET Advisories : ChunkAnswered(advisories)
    BY <2>5, ChunkAnsweredKeeps
  <2>6. CASE Intake \/ Recheck \/ Unpack \/ Assess \/ Answer
    BY <2>6, IntakeKeeps, RecheckKeeps, UnpackKeeps, AssessKeeps, AnswerKeeps
  <2>7. CASE UNCHANGED vars
    BY <2>7, StutterKeeps
  <2> QED
    BY <2>1, <2>2, <2>3, <2>4, <2>5, <2>6, <2>7 DEF Next
<1> QED
  BY InitIsSafe, <1>1, PTL DEF Spec

\* A layer is taken for that of the scanned source only if every file of the tree is still
\* what the intake has judged, but for edits made during the second walk (Recheck of
\* LayerInspection; the comparison of the two digests in create_build).
THEOREM TreeIsAsScanned == Spec => []SourceIsAsScanned
<1>1. IInv => SourceIsAsScanned
  BY DEF IInv
<1> QED
  BY Invariance, <1>1, PTL

\* What is concluded to be fixed was looked up in full, and not reported
\* (apply_autonomous_vex_assessments).
THEOREM FixedHasProof == Spec => []FixedIsProven
<1>1. IInv => FixedIsProven
  BY DEF IInv
<1> QED
  BY Invariance, <1>1, PTL

\* In a layer that is allowed there is, for each vulnerability and component name that the
\* source lookup reported, a match that the lookup of the layer and its inventory answer for
\* (apply_autonomous_vex_assessments, evaluate_gate).  Of several matches of one name the
\* others may be without an answer.
THEOREM SubjectsAreAnswered == Spec => []SubjectsAnswered
<1>1. IInv => SubjectsAnswered
  BY DEF IInv
<1> QED
  BY Invariance, <1>1, PTL

\* The declared files of an allowed build are those of its source (compare_recipe_metadata).
THEOREM MaterialsAreDeclared == Spec => []MaterialsAreTheirs
<1>1. IInv => MaterialsAreTheirs
  BY DEF IInv
<1> QED
  BY Invariance, <1>1, PTL

-----------------------------------------------------------------------------
LEMMA PrefixIs ==
    ASSUME NEW Names, NEW p \in Seq(Names), NEW q \in Seq(Names)
    PROVE  IsPrefix(p, q) <=> Len(p) <= Len(q) /\ \A i \in 1..Len(p) : p[i] = q[i]
BY DEF IsPrefix

LEMMA PrefixOrder ==
    ASSUME NEW Names, NEW p \in Seq(Names), NEW q \in Seq(Names), NEW r \in Seq(Names)
    PROVE  /\ IsPrefix(p, p)
           /\ IsPrefix(p, q) /\ IsPrefix(q, r) => IsPrefix(p, r)
           /\ IsPrefix(p, q) /\ IsPrefix(q, p) => p = q
           /\ IsPrefix(p, r) /\ IsPrefix(q, r) => IsPrefix(p, q) \/ IsPrefix(q, p)
<1>1. IsPrefix(p, p)
  BY PrefixIs
<1>2. IsPrefix(p, q) /\ IsPrefix(q, r) => IsPrefix(p, r)
  BY PrefixIs
<1>3. IsPrefix(p, q) /\ IsPrefix(q, p) => p = q
  BY PrefixIs
<1>4. IsPrefix(p, r) /\ IsPrefix(q, r) => IsPrefix(p, q) \/ IsPrefix(q, p)
  BY PrefixIs
<1> QED
  BY <1>1, <1>2, <1>3, <1>4

LEMMA ParentsAre ==
    ASSUME NEW Names, NEW e, e.path \in Seq(Names)
    PROVE  /\ Parents(e) \subseteq Seq(Names) \ {<< >>}
           /\ \A p \in Seq(Names) \ {<< >>} :
                 p \in Parents(e) <=> /\ IsPrefix(p, e.path)
                                      /\ p # e.path \/ e.kind = "opaque"
<1>1. ASSUME NEW n \in 1..Len(e.path)
      PROVE  LET p == SubSeq(e.path, 1, n)
             IN  /\ p \in Seq(Names) /\ Len(p) = n /\ \A i \in 1..n : p[i] = e.path[i]
  OBVIOUS
<1>2. Parents(e) \subseteq Seq(Names) \ {<< >>}
  BY <1>1 DEF Parents
<1>3. ASSUME NEW p \in Parents(e) PROVE IsPrefix(p, e.path) /\ (p # e.path \/ e.kind = "opaque")
  <2>1. PICK n \in 1..Len(e.path) :
            p = SubSeq(e.path, 1, n) /\ (e.kind # "opaque" => n # Len(e.path))
    BY DEF Parents
  <2>2. /\ p \in Seq(Names) /\ Len(p) = n /\ \A i \in 1..n : p[i] = e.path[i]
        /\ n <= Len(e.path) /\ Len(e.path) \in Nat
    BY <1>1, <2>1
  <2>3. IsPrefix(p, e.path)
    BY <2>2, PrefixIs
  <2>4. p = e.path => n = Len(e.path)
    BY <2>2
  <2> QED
    BY <2>1, <2>3, <2>4
<1>4. ASSUME NEW p \in Seq(Names) \ {<< >>}, IsPrefix(p, e.path), p # e.path \/ e.kind = "opaque"
      PROVE  p \in Parents(e)
  <2>1. Len(p) \in 1..Len(e.path) /\ \A i \in 1..Len(p) : p[i] = e.path[i]
    BY <1>4, PrefixIs
  <2>2. p = SubSeq(e.path, 1, Len(p))
    BY <1>1, <2>1
  <2>3. e.kind # "opaque" => Len(p) # Len(e.path)
    BY <1>4, <2>1
  <2>4. Len(p) \in 1..(IF e.kind = "opaque" THEN Len(e.path) ELSE Len(e.path) - 1)
    BY <2>1, <2>3
  <2> QED
    BY <2>2, <2>4 DEF Parents
<1> QED
  BY <1>2, <1>3, <1>4

-----------------------------------------------------------------------------
(***************************************************************************)
(* Trees and paths: what removing, creating and putting leave is a tree, with *)
(* real directories above everything.                                      *)
(***************************************************************************)
Paths(Names) == Seq(Names) \ {<< >>}

\* What a tar of paths over Names unpacks to.
IsTree(Names, t) ==
    /\ DOMAIN t \subseteq Paths(Names)
    /\ \A p \in DOMAIN t : t[p].kind = "dir" => t[p] = Directory
    /\ \A p \in DOMAIN t, q \in Paths(Names) : IsStrictPrefix(q, p) => IsDir(t, q)

LEMMA KeptIsTree ==
    ASSUME NEW Names, NEW t, IsTree(Names, t), NEW kept, kept \subseteq DOMAIN t,
           \A p \in kept, q \in DOMAIN t : IsStrictPrefix(q, p) => q \in kept
    PROVE  IsTree(Names, Restrict(t, kept))
BY DEF IsTree, IsDir, Restrict

LEMMA RemovedIsTree ==
    ASSUME NEW Names, NEW t, IsTree(Names, t), NEW p \in Paths(Names)
    PROVE  LET removed == remove_path(t, p)
           IN  /\ IsTree(Names, removed)
               /\ DOMAIN removed = {q \in DOMAIN t : ~IsPrefix(p, q)}
               /\ \A q \in DOMAIN removed : removed[q] = t[q]
<1> DEFINE kept == {q \in DOMAIN t : ~IsPrefix(p, q)}
<1>1. \A q \in kept, r \in DOMAIN t : IsStrictPrefix(r, q) => r \in kept
  BY PrefixOrder DEF IsTree, Paths, IsStrictPrefix
<1>2. IsTree(Names, Restrict(t, kept))
  BY <1>1, KeptIsTree
<1> QED
  BY <1>2 DEF remove_path, Restrict

LEMMA EmptiedIsTree ==
    ASSUME NEW Names, NEW t, IsTree(Names, t), NEW p \in Paths(Names)
    PROVE  LET emptied == Restrict(t, {q \in DOMAIN t : ~IsStrictPrefix(p, q)})
           IN  /\ IsTree(Names, emptied)
               /\ DOMAIN emptied = {q \in DOMAIN t : ~IsStrictPrefix(p, q)}
               /\ \A q \in DOMAIN emptied : emptied[q] = t[q]
<1> DEFINE kept == {q \in DOMAIN t : ~IsStrictPrefix(p, q)}
<1>1. \A q \in kept, r \in DOMAIN t : IsStrictPrefix(r, q) => r \in kept
  BY PrefixOrder DEF IsTree, Paths, IsStrictPrefix
<1>2. IsTree(Names, Restrict(t, kept))
  BY <1>1, KeptIsTree
<1> QED
  BY <1>2 DEF Restrict

Plain(node) == node.kind = "dir" => node = Directory

\* There is a place for p: real directories above, nothing below.
HasPlace(Names, t, p) ==
    /\ \A q \in Paths(Names) : IsStrictPrefix(q, p) => IsDir(t, q)
    /\ \A q \in DOMAIN t : ~IsStrictPrefix(p, q)

\* A tree but for what was at p and below, with the node at p.
Places(Names, t, new, p, node) ==
    /\ IsTree(Names, new)
    /\ DOMAIN new = {q \in DOMAIN t : ~IsPrefix(p, q)} \cup {p}
    /\ new[p] = node
    /\ \A q \in DOMAIN t : ~IsPrefix(p, q) => new[q] = t[q]

LEMMA PutIsTree ==
    ASSUME NEW Names, NEW t, IsTree(Names, t), NEW p \in Paths(Names), NEW node,
           Plain(node), HasPlace(Names, t, p)
    PROVE  Places(Names, t, Put(t, p, node), p, node)
<1> DEFINE put == Put(t, p, node)
<1>1. /\ DOMAIN put = DOMAIN t \cup {p}
      /\ put[p] = node
      /\ \A q \in DOMAIN t : q # p => put[q] = t[q]
  BY DEF Put
<1> HIDE DEF put
<1>2. IsTree(Names, put)
  <2>1. \A q \in DOMAIN put : put[q].kind = "dir" => put[q] = Directory
    BY <1>1 DEF IsTree, Plain
  <2>2. ASSUME NEW q \in DOMAIN put, NEW r \in Paths(Names), IsStrictPrefix(r, q)
        PROVE  IsDir(put, r)
    <3>1. IsDir(t, r)
      BY <1>1, <2>2 DEF IsTree, HasPlace
    <3>2. r # p
      BY <1>1, <2>2 DEF IsStrictPrefix, HasPlace
    <3> QED
      BY <1>1, <3>1, <3>2 DEF IsDir
  <2> QED
    BY <1>1, <2>1, <2>2 DEF IsTree
<1>3. IsPrefix(p, p)
  BY PrefixOrder DEF Paths
<1>4. DOMAIN put = {q \in DOMAIN t : ~IsPrefix(p, q)} \cup {p}
  BY <1>1, <1>3 DEF HasPlace, IsStrictPrefix
<1>5. \A q \in DOMAIN t : ~IsPrefix(p, q) => put[q] = t[q]
  BY <1>1, <1>3
<1> QED
  BY <1>1, <1>2, <1>4, <1>5 DEF put, Places

\* A node that takes the place of what was there.
LEMMA PlacedIsTree ==
    ASSUME NEW Names, NEW t, IsTree(Names, t), NEW p \in Paths(Names), NEW node,
           Plain(node),
           \A q \in Paths(Names) : IsStrictPrefix(q, p) => IsDir(remove_path(t, p), q)
    PROVE  Places(Names, t, Put(remove_path(t, p), p, node), p, node)
<1> DEFINE removed == remove_path(t, p)
           put == Put(removed, p, node)
<1>1. /\ IsTree(Names, removed)
      /\ DOMAIN removed = {q \in DOMAIN t : ~IsPrefix(p, q)}
      /\ \A q \in DOMAIN removed : removed[q] = t[q]
  BY RemovedIsTree
<1>2. HasPlace(Names, removed, p)
  BY <1>1 DEF HasPlace, IsStrictPrefix
<1> HIDE DEF removed
<1>3. Places(Names, removed, put, p, node)
  BY <1>1, <1>2, PutIsTree
<1> HIDE DEF put
<1>4. Places(Names, t, put, p, node)
  BY <1>1, <1>3 DEF Places
<1> QED
  BY <1>4 DEF put, removed

\* create_safe_parent.
LEMMA CreatedIsTree ==
    ASSUME NEW Names, NEW t, IsTree(Names, t), NEW e, e.path \in Paths(Names),
           ParentsAreSafe(t, e)
    PROVE  LET made == create_safe_parent(t, e)
           IN  /\ IsTree(Names, made)
               /\ DOMAIN made = DOMAIN t \cup Parents(e)
               /\ \A p \in Parents(e) : made[p] = Directory
               /\ \A p \in DOMAIN t : made[p] = t[p]
<1> DEFINE made == create_safe_parent(t, e)
<1>1. /\ Parents(e) \subseteq Paths(Names)
      /\ \A p \in Parents(e), q \in Paths(Names) : IsStrictPrefix(q, p) => q \in Parents(e)
  <2>1. e.path \in Seq(Names)
    BY DEF Paths
  <2>2. Parents(e) \subseteq Paths(Names)
    BY <2>1, ParentsAre DEF Paths
  <2>3. ASSUME NEW p \in Parents(e), NEW q \in Paths(Names), IsStrictPrefix(q, p)
        PROVE  q \in Parents(e)
    <3>1. IsPrefix(q, p) /\ q # p /\ IsPrefix(p, e.path) /\ p \in Seq(Names) /\ q \in Seq(Names)
      BY <2>1, <2>2, <2>3, ParentsAre DEF IsStrictPrefix, Paths
    <3>2. IsPrefix(q, e.path) /\ q # e.path
      BY <2>1, <3>1, PrefixOrder
    <3> QED
      BY <2>1, <3>2, ParentsAre DEF Paths
  <2> QED
    BY <2>2, <2>3
<1>2. /\ DOMAIN made = DOMAIN t \cup Parents(e)
      /\ \A p \in DOMAIN t : made[p] = t[p]
      /\ \A p \in Parents(e) \ DOMAIN t : made[p] = Directory
  BY DEF create_safe_parent
<1> HIDE DEF made
<1>3. \A p \in Parents(e) : made[p] = Directory
  BY <1>2 DEF ParentsAreSafe, IsTree, IsDir
<1>4. IsTree(Names, made)
  <2>1. \A p \in DOMAIN made : made[p].kind = "dir" => made[p] = Directory
    BY <1>2, <1>3 DEF IsTree
  <2>2. ASSUME NEW p \in DOMAIN made, NEW q \in Paths(Names), IsStrictPrefix(q, p)
        PROVE  IsDir(made, q)
    <3>1. CASE p \in DOMAIN t
      BY <1>2, <2>2, <3>1 DEF IsTree, IsDir
    <3>2. CASE p \in Parents(e)
      BY <1>1, <1>2, <1>3, <2>2, <3>2 DEF IsDir, Directory, Node
    <3> QED
      BY <1>2, <3>1, <3>2
  <2> QED
    BY <1>1, <1>2, <2>1, <2>2 DEF IsTree
<1> QED
  BY <1>2, <1>3, <1>4 DEF made

-----------------------------------------------------------------------------
(***************************************************************************)
(* What one entry does to each path of the tree.                           *)
(***************************************************************************)
\* What the entry leaves at the path it provides.
NodeOf(e, p) ==
    IF e.path = p /\ e.kind \in {"file", "symlink"} THEN Node(e.kind, e.content) ELSE Directory

\* What an entry makes of a path: what it says if it has a say, else what was there.
Follows(t, new, e, p) ==
    /\ Provides(e, p) => p \in DOMAIN new /\ new[p] = NodeOf(e, p)
    /\ ~Provides(e, p) /\ Erases(e, p) => p \notin DOMAIN new
    /\ ~Provides(e, p) /\ ~Erases(e, p) =>
           /\ p \in DOMAIN new <=> p \in DOMAIN t
           /\ p \in DOMAIN t => new[p] = t[p]

\* UnpackEntry, when the entry is not rejected.
LEMMA EntryFollows ==
    ASSUME NEW Names, NEW t, IsTree(Names, t), NEW e, e.path \in Paths(Names),
           ParentsAreSafe(t, e),
           e.kind \in {"file", "dir", "symlink", "link", "whiteout", "opaque"}
    PROVE  LET new == After(create_safe_parent(t, e), e)
           IN  /\ IsTree(Names, new)
               /\ \A p \in Paths(Names) : Follows(t, new, e, p)
<1> DEFINE made == create_safe_parent(t, e)
           new == After(made, e)
           removed == remove_path(made, e.path)
<1>1. /\ IsTree(Names, made)
      /\ DOMAIN made = DOMAIN t \cup Parents(e)
      /\ \A p \in Parents(e) : made[p] = Directory
      /\ \A p \in DOMAIN t : made[p] = t[p]
  BY CreatedIsTree
<1>2. /\ Parents(e) \subseteq Paths(Names)
      /\ \A p \in Paths(Names) :
            p \in Parents(e) <=> IsPrefix(p, e.path) /\ (p # e.path \/ e.kind = "opaque")
  BY ParentsAre DEF Paths
<1>3. ASSUME NEW p \in Parents(e) PROVE NodeOf(e, p) = Directory
  BY <1>2, <1>3 DEF NodeOf
<1>4. ASSUME NEW p \in Parents(e) PROVE ~IsStrictPrefix(e.path, p)
  <2>1. IsPrefix(p, e.path) /\ p \in Seq(Names) /\ e.path \in Seq(Names)
    BY <1>2, <1>4 DEF Paths
  <2> QED
    BY <2>1, PrefixOrder DEF IsStrictPrefix
<1>5. e.path # << >> /\ e.path \in Seq(Names) /\ IsPrefix(e.path, e.path)
  BY PrefixOrder DEF Paths
<1>6. /\ IsTree(Names, removed)
      /\ DOMAIN removed = {q \in DOMAIN made : ~IsPrefix(e.path, q)}
      /\ \A q \in DOMAIN removed : removed[q] = made[q]
  <2> HIDE DEF made
  <2> QED
    BY <1>1, RemovedIsTree
<1>7. \A q \in Paths(Names) : IsStrictPrefix(q, e.path) => IsDir(removed, q)
  <2> SUFFICES ASSUME NEW q \in Paths(Names), IsStrictPrefix(q, e.path)
               PROVE  IsDir(removed, q)
    OBVIOUS
  <2>1. q \in Parents(e) /\ ~IsPrefix(e.path, q)
    BY <1>2, <1>5, PrefixOrder DEF IsStrictPrefix, Paths
  <2> QED
    BY <1>1, <1>6, <2>1 DEF IsDir, Directory, Node
<1>8. ASSUME NEW node, Plain(node)
      PROVE  Places(Names, made, Put(removed, e.path, node), e.path, node)
  <2> HIDE DEF made
  <2> QED
    BY <1>1, <1>7, <1>8, PlacedIsTree
<1>9. CASE e.kind \in {"file", "symlink"}
  <2>1. new = Put(removed, e.path, Node(e.kind, e.content))
    BY <1>9 DEF After
  <2>2. Places(Names, made, new, e.path, Node(e.kind, e.content))
    BY <1>8, <1>9, <2>1 DEF Node, Plain
  <2> HIDE DEF made, new, removed
  <2>3. ASSUME NEW p \in Paths(Names) PROVE Follows(t, new, e, p)
    <3>1. CASE p = e.path
      BY <1>2, <1>9, <2>2, <3>1 DEF Places, Follows, Provides, NodeOf, Paths
    <3>2. CASE p \in Parents(e)
      <4>1. p # e.path /\ ~IsPrefix(e.path, p)
        BY <1>2, <1>4, <1>9, <3>2 DEF IsStrictPrefix
      <4> QED
        BY <1>1, <1>3, <2>2, <3>2, <4>1 DEF Places, Follows, Provides
    <3>3. CASE p # e.path /\ p \notin Parents(e)
      <4>1. ~Provides(e, p) /\ (Erases(e, p) <=> IsPrefix(e.path, p))
        BY <1>5, <1>9, <3>3 DEF Provides, Erases
      <4> QED
        BY <1>1, <2>2, <3>3, <4>1 DEF Places, Follows
    <3> QED
      BY <3>1, <3>2, <3>3
  <2> QED
    BY <2>2, <2>3 DEF new, made, Places
<1>10. CASE e.kind = "dir" /\ ~IsDir(made, e.path)
  <2>1. new = Put(removed, e.path, Directory)
    BY <1>10 DEF After
  <2>2. Places(Names, made, new, e.path, Directory)
    BY <1>8, <2>1 DEF Plain
  <2>3. \A q \in DOMAIN made : ~IsStrictPrefix(e.path, q)
    BY <1>1, <1>10 DEF IsTree
  <2> HIDE DEF made, new, removed
  <2>4. ASSUME NEW p \in Paths(Names) PROVE Follows(t, new, e, p)
    <3>1. CASE p = e.path
      BY <1>2, <1>10, <2>2, <3>1 DEF Places, Follows, Provides, NodeOf, Paths
    <3>2. CASE p \in Parents(e)
      <4>1. p # e.path /\ ~IsPrefix(e.path, p)
        BY <1>2, <1>4, <1>10, <3>2 DEF IsStrictPrefix
      <4> QED
        BY <1>1, <1>3, <2>2, <3>2, <4>1 DEF Places, Follows, Provides
    <3>3. CASE p # e.path /\ p \notin Parents(e)
      <4>1. ~Provides(e, p) /\ ~Erases(e, p)
        BY <1>5, <1>10, <3>3 DEF Provides, Erases
      <4>2. p \in DOMAIN made => ~IsPrefix(e.path, p)
        BY <2>3, <3>3 DEF IsStrictPrefix
      <4> QED
        BY <1>1, <2>2, <3>3, <4>1, <4>2 DEF Places, Follows
    <3> QED
      BY <3>1, <3>2, <3>3
  <2> QED
    BY <2>2, <2>4 DEF new, made, Places
<1>11. CASE e.kind = "dir" /\ IsDir(made, e.path)
  <2>1. new = made
    BY <1>11 DEF After
  <2> HIDE DEF made, new, removed
  <2>2. ASSUME NEW p \in Paths(Names) PROVE Follows(t, new, e, p)
    <3>1. CASE p = e.path
      BY <1>1, <1>2, <1>11, <2>1, <3>1 DEF Follows, Provides, NodeOf, Paths, IsDir, IsTree
    <3>2. CASE p \in Parents(e)
      BY <1>1, <1>3, <2>1, <3>2 DEF Follows, Provides
    <3>3. CASE p # e.path /\ p \notin Parents(e)
      BY <1>1, <1>11, <2>1, <3>3 DEF Follows, Provides, Erases
    <3> QED
      BY <3>1, <3>2, <3>3
  <2> QED
    BY <1>1, <2>1, <2>2 DEF new, made
<1>12. CASE e.kind = "link"
  <2>1. new = made
    BY <1>12 DEF After
  <2> HIDE DEF made, new, removed
  <2>2. ASSUME NEW p \in Paths(Names) PROVE Follows(t, new, e, p)
    <3>1. CASE p \in Parents(e)
      BY <1>1, <1>3, <2>1, <3>1 DEF Follows, Provides
    <3>2. CASE p \notin Parents(e)
      BY <1>1, <1>12, <2>1, <3>2 DEF Follows, Provides, Erases
    <3> QED
      BY <3>1, <3>2
  <2> QED
    BY <1>1, <2>1, <2>2 DEF new, made
<1>13. CASE e.kind = "whiteout"
  <2>1. new = removed
    BY <1>13 DEF After, apply_whiteout
  <2> HIDE DEF made, new, removed
  <2>2. ASSUME NEW p \in Paths(Names) PROVE Follows(t, new, e, p)
    <3>1. CASE p \in Parents(e)
      <4>1. ~IsPrefix(e.path, p)
        BY <1>2, <1>4, <1>13, <3>1 DEF IsStrictPrefix
      <4> QED
        BY <1>1, <1>3, <1>6, <2>1, <3>1, <4>1 DEF Follows, Provides
    <3>2. CASE p \notin Parents(e)
      <4>1. ~Provides(e, p) /\ (Erases(e, p) <=> IsPrefix(e.path, p))
        BY <1>5, <1>13, <3>2 DEF Provides, Erases
      <4> QED
        BY <1>1, <1>6, <2>1, <3>2, <4>1 DEF Follows
    <3> QED
      BY <3>1, <3>2
  <2> QED
    BY <1>6, <2>1, <2>2 DEF new, made
<1>14. CASE e.kind = "opaque"
  <2> DEFINE emptied == Restrict(made, {q \in DOMAIN made : ~IsStrictPrefix(e.path, q)})
  <2>1. new = emptied
    BY <1>14 DEF After, apply_whiteout
  <2>2. /\ IsTree(Names, emptied)
        /\ DOMAIN emptied = {q \in DOMAIN made : ~IsStrictPrefix(e.path, q)}
        /\ \A q \in DOMAIN emptied : emptied[q] = made[q]
    BY <1>1, EmptiedIsTree
  <2> HIDE DEF made, new, removed, emptied
  <2>3. ASSUME NEW p \in Paths(Names) PROVE Follows(t, new, e, p)
    <3>1. CASE p \in Parents(e)
      BY <1>1, <1>3, <1>4, <2>1, <2>2, <3>1 DEF Follows, Provides
    <3>2. CASE p \notin Parents(e)
      <4>1. ~Provides(e, p) /\ (Erases(e, p) <=> IsStrictPrefix(e.path, p))
        BY <1>5, <1>14, <3>2 DEF Provides, Erases
      <4> QED
        BY <1>1, <2>1, <2>2, <3>2, <4>1 DEF Follows
    <3> QED
      BY <3>1, <3>2
  <2> QED
    BY <2>1, <2>2, <2>3 DEF new, made
<1> QED
  BY <1>9, <1>10, <1>11, <1>12, <1>13, <1>14

\* What MakeLink puts at a path that has its parents.
LEMMA LinkPlaces ==
    ASSUME NEW Names, NEW t, IsTree(Names, t), NEW p \in Paths(Names), NEW node, Plain(node),
           \A n \in 1..(Len(p) - 1) : IsDir(remove_path(t, p), SubSeq(p, 1, n))
    PROVE  Places(Names, t, Put(remove_path(t, p), p, node), p, node)
<1> DEFINE cleared == remove_path(t, p)
<1>1. ASSUME NEW q \in Paths(Names), IsStrictPrefix(q, p)
      PROVE  IsDir(cleared, q)
  <2>1. /\ q \in Seq(Names) /\ q # << >> /\ p \in Seq(Names)
        /\ IsPrefix(q, p) /\ q # p
    BY <1>1 DEF Paths, IsStrictPrefix
  <2>2. Len(q) \in 1..Len(p) /\ \A i \in 1..Len(q) : q[i] = p[i]
    BY <2>1, PrefixIs
  <2>3. q = SubSeq(p, 1, Len(q)) /\ Len(q) # Len(p)
    <3>1. SubSeq(p, 1, Len(q)) \in Seq(Names) /\ Len(SubSeq(p, 1, Len(q))) = Len(q)
          /\ \A i \in 1..Len(q) : SubSeq(p, 1, Len(q))[i] = p[i]
      BY <2>1, <2>2
    <3>2. q = SubSeq(p, 1, Len(q))
      BY <2>1, <2>2, <3>1
    <3>3. Len(q) = Len(p) => q = p
      BY <2>1, <2>2
    <3> QED
      BY <2>1, <3>2, <3>3
  <2>4. Len(q) \in 1..(Len(p) - 1)
    BY <2>1, <2>2, <2>3
  <2> HIDE DEF cleared
  <2>5. IsDir(cleared, SubSeq(p, 1, Len(q)))
    BY <2>4 DEF cleared
  <2> QED
    BY <2>3, <2>5
<1> QED
  BY <1>1, PlacedIsTree

-----------------------------------------------------------------------------
(***************************************************************************)
(* The states a fold goes through (FoldSteps), for the three the unpacking is *)
(* made of, and for the concatenation of the tars of an image.             *)
(***************************************************************************)
Entries == INSTANCE FoldSteps WITH Op <- UnpackEntry
Links == INSTANCE FoldSteps WITH Op <- MakeLink
Layers == INSTANCE FoldSteps WITH Op <- UnpackLayer

LEMMA EntryStates ==
    ASSUME NEW st, NEW S, NEW tar \in Seq(S)
    PROVE  \E f : /\ f[0] = st
                  /\ \A n \in 1..Len(tar) : f[n] = UnpackEntry(f[n - 1], tar[n])
                  /\ FoldLeft(UnpackEntry, st, tar) = f[Len(tar)]
<1> DEFINE mine == Entries!FoldLeft(UnpackEntry, st, tar)
           theirs == FoldLeft(UnpackEntry, st, tar)
<1>1. mine = theirs
  BY DEF Entries!FoldLeft, Entries!MapThenFoldSet, Entries!Max, FoldLeft, MapThenFoldSet, Max
<1>2. \E f : /\ f[0] = st
             /\ \A n \in 1..Len(tar) : f[n] = UnpackEntry(f[n - 1], tar[n])
             /\ mine = f[Len(tar)]
  BY Entries!FoldStates
<1> HIDE DEF mine
<1>3. \E f : /\ f[0] = st
             /\ \A n \in 1..Len(tar) : f[n] = UnpackEntry(f[n - 1], tar[n])
             /\ theirs = f[Len(tar)]
  <2> HIDE DEF theirs
  <2> QED
    BY <1>1, <1>2
<1> QED
  BY <1>3

LEMMA LinkStates ==
    ASSUME NEW st, NEW S, NEW links \in Seq(S)
    PROVE  \E f : /\ f[0] = st
                  /\ \A n \in 1..Len(links) : f[n] = MakeLink(f[n - 1], links[n])
                  /\ FoldLeft(MakeLink, st, links) = f[Len(links)]
<1> DEFINE mine == Links!FoldLeft(MakeLink, st, links)
           theirs == FoldLeft(MakeLink, st, links)
<1>1. mine = theirs
  BY DEF Links!FoldLeft, Links!MapThenFoldSet, Links!Max, FoldLeft, MapThenFoldSet, Max
<1>2. \E f : /\ f[0] = st
             /\ \A n \in 1..Len(links) : f[n] = MakeLink(f[n - 1], links[n])
             /\ mine = f[Len(links)]
  BY Links!FoldStates
<1> HIDE DEF mine
<1>3. \E f : /\ f[0] = st
             /\ \A n \in 1..Len(links) : f[n] = MakeLink(f[n - 1], links[n])
             /\ theirs = f[Len(links)]
  <2> HIDE DEF theirs
  <2> QED
    BY <1>1, <1>2
<1> QED
  BY <1>3

LEMMA LayerStates ==
    ASSUME NEW st, NEW S, NEW layers \in Seq(S)
    PROVE  \E f : /\ f[0] = st
                  /\ \A n \in 1..Len(layers) : f[n] = UnpackLayer(f[n - 1], layers[n])
                  /\ FoldLeft(UnpackLayer, st, layers) = f[Len(layers)]
<1> DEFINE mine == Layers!FoldLeft(UnpackLayer, st, layers)
           theirs == FoldLeft(UnpackLayer, st, layers)
<1>1. mine = theirs
  BY DEF Layers!FoldLeft, Layers!MapThenFoldSet, Layers!Max, FoldLeft, MapThenFoldSet, Max
<1>2. \E f : /\ f[0] = st
             /\ \A n \in 1..Len(layers) : f[n] = UnpackLayer(f[n - 1], layers[n])
             /\ mine = f[Len(layers)]
  BY Layers!FoldStates
<1> HIDE DEF mine
<1>3. \E f : /\ f[0] = st
             /\ \A n \in 1..Len(layers) : f[n] = UnpackLayer(f[n - 1], layers[n])
             /\ theirs = f[Len(layers)]
  <2> HIDE DEF theirs
  <2> QED
    BY <1>1, <1>2
<1> QED
  BY <1>3

LEMMA ListedLayerStates ==
    ASSUME NEW ls, IsList(ls)
    PROVE  \E f : /\ f[0] = Start
                  /\ \A n \in 1..Len(ls) : f[n] = UnpackLayer(f[n - 1], ls[n])
                  /\ FoldLeft(UnpackLayer, Start, ls) = f[Len(ls)]
<1>1. ls \in Seq(Range(ls))
  BY DEF IsList
<1> QED
  BY <1>1, LayerStates

\* FlattenSeq recurs over the last sequence.
FlatStates(seqs, n, g) == g = [i \in 1..n |-> IF i = 1 THEN seqs[i] ELSE g[i - 1] \o seqs[i]]

LEMMA FlatExists ==
    ASSUME NEW seqs, NEW n \in Nat
    PROVE  \E g : FlatStates(seqs, n, g)
<1> DEFINE T == {m \in Nat : \E g : FlatStates(seqs, m, g)}
<1>1. 0 \in T
  <2> DEFINE g == [i \in 1..0 |-> i]
  <2>1. FlatStates(seqs, 0, g)
    BY DEF FlatStates
  <2> QED
    BY <2>1
<1>2. ASSUME NEW m \in 0..(n - 1), m \in T PROVE m + 1 \in T
  <2>1. PICK g : FlatStates(seqs, m, g)
    BY <1>2
  <2> DEFINE h == [i \in 1..(m + 1) |->
                      IF i = m + 1 THEN (IF i = 1 THEN seqs[i] ELSE g[i - 1] \o seqs[i])
                      ELSE g[i]]
  <2>2. ASSUME NEW i \in 1..(m + 1)
        PROVE  h[i] = IF i = 1 THEN seqs[i] ELSE h[i - 1] \o seqs[i]
    <3>1. CASE i = m + 1
      <4>1. i # 1 => h[i - 1] = g[i - 1]
        BY <3>1
      <4> QED
        BY <3>1, <4>1
    <3>2. CASE i # m + 1
      <4>1. i \in 1..m /\ h[i] = g[i] /\ (i # 1 => h[i - 1] = g[i - 1])
        BY <3>2
      <4> QED
        BY <2>1, <4>1 DEF FlatStates
    <3> QED
      BY <3>1, <3>2
  <2>3. h = [i \in 1..(m + 1) |-> h[i]]
    OBVIOUS
  <2> HIDE DEF h
  <2>4. FlatStates(seqs, m + 1, h)
    BY <2>2, <2>3 DEF FlatStates
  <2> QED
    BY <2>4
<1>3. n \in T
  <2> HIDE DEF T
  <2> QED
    BY <1>1, <1>2, Layers!EndIsReached
<1> QED
  BY <1>3
LEMMA FlattenStates ==
    ASSUME NEW S, NEW seqs \in Seq(Seq(S))
    PROVE  \E f : /\ f[0] = << >>
                  /\ \A n \in 1..Len(seqs) : f[n] = f[n - 1] \o seqs[n]
                  /\ FlattenSeq(seqs) = f[Len(seqs)]
<1>1. CASE seqs = << >>
  <2> DEFINE f == [i \in 0..0 |-> << >>]
  <2>1. FlattenSeq(seqs) = << >> /\ Len(seqs) = 0
    BY <1>1 DEF FlattenSeq
  <2>2. f[0] = << >>
    OBVIOUS
  <2> HIDE DEF f
  <2> QED
    BY <2>1, <2>2
<1>2. CASE seqs # << >>
  <2>1. Len(seqs) \in Nat \ {0}
    BY <1>2
  <2> DEFINE g == CHOOSE h : FlatStates(seqs, Len(seqs), h)
             f == [i \in 0..Len(seqs) |-> IF i = 0 THEN << >> ELSE g[i]]
  <2>2. FlatStates(seqs, Len(seqs), g)
    BY <2>1, FlatExists
  <2>3. FlattenSeq(seqs) = g[Len(seqs)]
    BY <2>1 DEF FlattenSeq, FlatStates
  <2> HIDE DEF g
  <2>4. ASSUME NEW n \in 1..Len(seqs) PROVE f[n] = f[n - 1] \o seqs[n]
    <3>1. CASE n = 1
      <4>1. seqs[1] \in Seq(S)
        BY <2>1
      <4>2. << >> \o seqs[1] = seqs[1]
        BY <4>1
      <4> QED
        BY <2>1, <2>2, <3>1, <4>2 DEF FlatStates
    <3>2. CASE n # 1
      <4>1. f[n] = g[n] /\ f[n - 1] = g[n - 1]
        BY <2>1, <3>2
      <4>2. g[n] = g[n - 1] \o seqs[n]
        BY <2>1, <2>2, <3>2 DEF FlatStates
      <4> QED
        BY <4>1, <4>2
    <3> QED
      BY <3>1, <3>2
  <2>5. f[0] = << >> /\ FlattenSeq(seqs) = f[Len(seqs)]
    BY <2>1, <2>3
  <2> HIDE DEF f
  <2> QED
    BY <2>4, <2>5
<1> QED
  BY <1>1, <1>2

-----------------------------------------------------------------------------
(***************************************************************************)
(* The tree after some entries, and the reference of LayerUnpack: each entry *)
(* that has a say about a path takes the last say from those before it.    *)
(***************************************************************************)
\* The last of the first n entries that has a say about p provides it.
HasLastSay(entries, n, i, p) ==
    /\ i \in 1..n /\ Provides(entries[i], p)
    /\ \A j \in (i + 1)..n : ~Provides(entries[j], p) /\ ~Erases(entries[j], p)

\* The tree has at p what the first n entries say.
Agrees(t, entries, n, p) ==
    \/ /\ p \in DOMAIN t
       /\ \E i \in 1..n : HasLastSay(entries, n, i, p) /\ t[p] = NodeOf(entries[i], p)
    \/ /\ p \notin DOMAIN t
       /\ \A i \in 1..n : Provides(entries[i], p) => \E j \in (i + 1)..n : Erases(entries[j], p)

\* One more entry.
LEMMA FollowingAgrees ==
    ASSUME NEW entries, NEW n \in Nat, NEW p, NEW t, Agrees(t, entries, n, p),
           NEW new, Follows(t, new, entries[n + 1], p)
    PROVE  Agrees(new, entries, n + 1, p)
<1> DEFINE e == entries[n + 1]
<1>1. CASE Provides(e, p)
  <2>1. p \in DOMAIN new /\ new[p] = NodeOf(e, p)
    BY <1>1 DEF Follows
  <2>2. HasLastSay(entries, n + 1, n + 1, p)
    BY <1>1 DEF HasLastSay
  <2> QED
    BY <2>1, <2>2 DEF Agrees
<1>2. CASE ~Provides(e, p) /\ Erases(e, p)
  <2>1. p \notin DOMAIN new
    BY <1>2 DEF Follows
  <2>2. ASSUME NEW i \in 1..(n + 1), Provides(entries[i], p)
        PROVE  \E j \in (i + 1)..(n + 1) : Erases(entries[j], p)
    <3>1. i # n + 1
      BY <1>2, <2>2
    <3>2. n + 1 \in (i + 1)..(n + 1)
      BY <3>1
    <3> QED
      BY <1>2, <3>2
  <2> QED
    BY <2>1, <2>2 DEF Agrees
<1>3. CASE ~Provides(e, p) /\ ~Erases(e, p)
  <2>1. /\ p \in DOMAIN new <=> p \in DOMAIN t
        /\ p \in DOMAIN t => new[p] = t[p]
    BY <1>3 DEF Follows
  <2>2. CASE p \in DOMAIN t
    <3>1. PICK i \in 1..n : HasLastSay(entries, n, i, p) /\ t[p] = NodeOf(entries[i], p)
      BY <2>2 DEF Agrees
    <3>2. HasLastSay(entries, n + 1, i, p)
      BY <1>3, <3>1 DEF HasLastSay
    <3> QED
      BY <2>1, <2>2, <3>1, <3>2 DEF Agrees
  <2>3. CASE p \notin DOMAIN t
    <3>1. ASSUME NEW i \in 1..(n + 1), Provides(entries[i], p)
          PROVE  \E j \in (i + 1)..(n + 1) : Erases(entries[j], p)
      <4>1. i \in 1..n
        BY <1>3, <3>1
      <4>2. PICK j \in (i + 1)..n : Erases(entries[j], p)
        BY <2>3, <3>1, <4>1 DEF Agrees
      <4> QED
        BY <4>2
    <3> QED
      BY <2>1, <2>3, <3>1 DEF Agrees
  <2> QED
    BY <2>2, <2>3
<1> QED
  BY <1>1, <1>2, <1>3

\* The tree depends on the entries taken only.
LEMMA AgreesOnPrefix ==
    ASSUME NEW S, NEW old \in Seq(S), NEW more \in Seq(S), NEW t, NEW p,
           Agrees(t, old, Len(old), p)
    PROVE  Agrees(t, old \o more, Len(old), p)
<1>1. \A i \in 1..Len(old) : (old \o more)[i] = old[i]
  OBVIOUS
<1>2. \A i \in 1..Len(old) : (i + 1)..Len(old) \subseteq 1..Len(old)
  OBVIOUS
<1> DEFINE all == old \o more
<1> HIDE DEF all
<1>3. \A i \in 1..Len(old) : all[i] = old[i]
  BY <1>1 DEF all
<1>4. \A i \in 1..Len(old) :
          HasLastSay(old, Len(old), i, p) => HasLastSay(all, Len(old), i, p)
  BY <1>2, <1>3 DEF HasLastSay
<1> QED
  BY <1>2, <1>3, <1>4 DEF Agrees, all

\* A tree that has what all the entries say is the reference, at that path.
LEMMA AgreedIsMerged ==
    ASSUME NEW Names, NEW entries, \A i \in 1..Len(entries) : entries[i].path \in Seq(Names),
           Len(entries) \in Nat, NEW p \in Paths(Names), NEW t,
           Agrees(t, entries, Len(entries), p)
    PROVE  /\ p \in DOMAIN t <=> p \in DOMAIN Merged(entries)
           /\ p \in DOMAIN t => t[p] = Merged(entries)[p]
<1>1. DOMAIN Merged(entries) = MergedPaths(entries)
  BY DEF Merged
<1>2. CASE p \in DOMAIN t
  <2>1. PICK i \in 1..Len(entries) :
            HasLastSay(entries, Len(entries), i, p) /\ t[p] = NodeOf(entries[i], p)
    BY <1>2 DEF Agrees
  <2>2. i \in Providers(entries, p)
    BY <2>1 DEF HasLastSay, Providers
  <2>3. \A j \in Providers(entries, p) : j <= i
    BY <2>1 DEF HasLastSay, Providers
  <2>4. Providers(entries, p) \subseteq 1..Len(entries)
    BY DEF Providers
  <2> DEFINE IsTop(j) == j \in Providers(entries, p) /\ \A k \in Providers(entries, p) : k <= j
  <2>5. IsTop(i) /\ \A j : IsTop(j) => j = i
    BY <2>2, <2>3, <2>4
  <2> DEFINE pick == CHOOSE j \in Providers(entries, p) :
                         \A k \in Providers(entries, p) : k <= j
  <2>6. pick = i
    <3>1. (CHOOSE j : IsTop(j)) = i
      <4> HIDE DEF IsTop
      <4> QED
        BY <2>5
    <3> QED
      BY <3>1
  <2>7. p \in MergedPaths(entries)
    BY <2>1, <2>2 DEF MergedPaths, HasLastSay, Provides
  <2>8. Merged(entries)[p] = NodeOf(entries[i], p)
    <3>1. Merged(entries)[p] = NodeOf(entries[pick], p)
      BY <2>7 DEF Merged, NodeOf
    <3> HIDE DEF pick
    <3> QED
      BY <2>6, <3>1
  <2> QED
    BY <1>1, <1>2, <2>1, <2>7, <2>8
<1>3. CASE p \notin DOMAIN t
  <2>1. Providers(entries, p) = {}
    BY <1>3 DEF Agrees, Providers
  <2> QED
    BY <1>1, <1>3, <2>1 DEF MergedPaths
<1> QED
  BY <1>2, <1>3

-----------------------------------------------------------------------------
(***************************************************************************)
(* The invariant of the unpacking, kept by each entry, by each hard link made *)
(* in the end, and so by each tar, whatever layers are below it.           *)
(***************************************************************************)
\* A value with exactly the fields of the unpacker's state.
IsUnpacker(st) ==
    st \in [tree : {st.tree}, links : {st.links}, entries : {st.entries}, bytes : {st.bytes},
            limit : {st.limit}, failed : {st.failed}]

HardLinks(entries) ==
    {e \in {entries[i] : i \in 1..Len(entries)} : e.kind = "link" /\ e.path # << >>}

\* The symlinks of a tree are those of the entries.
IsOf(entries, p, node) ==
    node.kind = "symlink" =>
        \E j \in 1..Len(entries) :
            /\ entries[j].kind = "symlink" /\ entries[j].path = p
            /\ entries[j].content = node.content /\ entries[j].content # Outside

Traced(entries, t) == \A p \in DOMAIN t : IsOf(entries, p, t[p])

\* Unless the unpacking has failed, the tree has what the first n entries say, at every path
\* that no hard link has to do with.
Unpacks(Names, st, entries, n) ==
    /\ IsUnpacker(st) /\ st.links \in Seq(HardLinks(entries))
    /\ ~st.failed => /\ IsTree(Names, st.tree) /\ Traced(entries, st.tree)
                     /\ \A p \in Paths(Names) :
                           Unlinked(entries, p) => Agrees(st.tree, entries, n, p)

IsEntryOver(Names, e) ==
    /\ e.path \in Seq(Names)
    /\ e.kind = "symlink" => e.content = Outside \/ e.content \in Seq(Names)

AreEntries(Names, entries) ==
    Len(entries) \in Nat /\ \A i \in 1..Len(entries) : IsEntryOver(Names, entries[i])

\* Where a hard link leads is its own path, or that through a symlink of the entries.
LEMMA FollowedIs ==
    ASSUME NEW Names, NEW entries, AreEntries(Names, entries), NEW t, Traced(entries, t),
           NEW p \in Paths(Names)
    PROVE  /\ Followed(t, p) \in Paths(Names)
           /\ \/ Followed(t, p) = p
              \/ \E j \in 1..Len(entries), n \in 1..(Len(p) - 1) :
                    /\ entries[j].kind = "symlink" /\ entries[j].path = SubSeq(p, 1, n)
                    /\ Followed(t, p) = Redirected(p, n, entries[j].content)
<1> DEFINE Through(n) == SubSeq(p, 1, n) \in DOMAIN t /\ t[SubSeq(p, 1, n)].kind = "symlink"
           symlinks == {n \in 1..(Len(p) - 1) : Through(n)}
           first == CHOOSE n \in symlinks : TRUE
<1>1. CASE symlinks = {}
  BY <1>1 DEF Followed
<1>2. CASE symlinks # {}
  <2>1. first \in symlinks
    BY <1>2
  <2> DEFINE q == SubSeq(p, 1, first)
  <2>2. first \in 1..(Len(p) - 1) /\ q \in DOMAIN t /\ t[q].kind = "symlink"
    <3> HIDE DEF first
    <3> QED
      BY <2>1
  <2>3. Followed(t, p) = Redirected(p, first, t[q].content)
    BY <1>2 DEF Followed
  <2> HIDE DEF first
  <2>4. PICK j \in 1..Len(entries) :
            /\ entries[j].kind = "symlink" /\ entries[j].path = q
            /\ entries[j].content = t[q].content /\ entries[j].content # Outside
    BY <2>2 DEF Traced, IsOf
  <2>5. t[q].content \in Seq(Names)
    BY <2>4 DEF AreEntries, IsEntryOver
  <2>6. p \in Seq(Names) /\ first + 1 \in 1..Len(p)
    BY <2>2 DEF Paths
  <2> DEFINE rest == SubSeq(p, first + 1, Len(p))
  <2>7. rest \in Seq(Names) /\ Len(rest) # 0
    BY <2>6
  <2> HIDE DEF rest
  <2>8. t[q].content \o rest \in Seq(Names) /\ Len(t[q].content \o rest) # 0
    BY <2>5, <2>7
  <2>9. t[q].content \o rest \in Paths(Names)
    BY <2>8 DEF Paths
  <2> QED
    BY <2>2, <2>3, <2>4, <2>9 DEF Redirected, rest
<1> QED
  BY <1>1, <1>2

LEMMA EntryIsTraced ==
    ASSUME NEW Names, NEW entries, NEW t, Traced(entries, t), NEW i \in 1..Len(entries), NEW new,
           IsTree(Names, new), \A p \in Paths(Names) : Follows(t, new, entries[i], p),
           ~LeadsOut(entries[i])
    PROVE  Traced(entries, new)
<1> DEFINE e == entries[i]
<1> SUFFICES ASSUME NEW p \in DOMAIN new PROVE IsOf(entries, p, new[p])
  BY DEF Traced
<1>1. p \in Paths(Names) /\ Follows(t, new, e, p)
  BY DEF IsTree
<1>2. CASE Provides(e, p)
  <2>1. new[p] = NodeOf(e, p)
    BY <1>1, <1>2 DEF Follows
  <2>2. ASSUME new[p].kind = "symlink"
        PROVE  e.kind = "symlink" /\ e.path = p /\ e.content = new[p].content
    BY <2>1, <2>2 DEF NodeOf, Node, Directory
  <2> QED
    BY <2>2 DEF IsOf, LeadsOut
<1>3. CASE ~Provides(e, p)
  <2>1. p \in DOMAIN t /\ new[p] = t[p]
    BY <1>1, <1>3 DEF Follows
  <2> QED
    BY <2>1 DEF Traced
<1> QED
  BY <1>2, <1>3

LEMMA EntryUnpacks ==
    ASSUME NEW Names, NEW entries, AreEntries(Names, entries), NEW st,
           NEW n \in 0..(Len(entries) - 1), Unpacks(Names, st, entries, n)
    PROVE  Unpacks(Names, UnpackEntry(st, entries[n + 1]), entries, n + 1)
<1> DEFINE e == entries[n + 1]
           new == UnpackEntry(st, e)
<1>1. n + 1 \in 1..Len(entries) /\ n \in Nat /\ e.path \in Seq(Names)
  BY DEF AreEntries, IsEntryOver
<1>2. CASE e.path = << >>
  <2>1. new = st
    BY <1>2 DEF UnpackEntry
  <2>2. \A p \in Paths(Names) : Follows(st.tree, st.tree, e, p)
    <3>1. \A p \in Paths(Names) : ~Provides(e, p)
      BY <1>1, <1>2 DEF Provides, Parents, Paths
    <3> QED
      BY <1>2, <3>1 DEF Follows, Erases
  <2> HIDE DEF new, e
  <2>3. ASSUME ~st.failed, NEW p \in Paths(Names), Unlinked(entries, p)
        PROVE  Agrees(st.tree, entries, n + 1, p)
    <3>1. Agrees(st.tree, entries, n, p)
      BY <2>3 DEF Unpacks
    <3>2. Follows(st.tree, st.tree, entries[n + 1], p)
      BY <2>2 DEF e
    <3> QED
      BY <1>1, <3>1, <3>2, FollowingAgrees
  <2> QED
    BY <2>1, <2>3 DEF Unpacks, new, e
<1>3. CASE e.path # << >> /\ (st.failed \/ Rejected(st, e))
  <2>1. new = [st EXCEPT !.failed = TRUE]
    BY <1>3 DEF UnpackEntry
  <2>2. IsUnpacker(new) /\ new.failed /\ new.links = st.links
    BY <2>1 DEF Unpacks, IsUnpacker
  <2> QED
    BY <2>2 DEF Unpacks
<1>4. CASE e.path # << >> /\ ~(st.failed \/ Rejected(st, e))
  <2> DEFINE t == After(create_safe_parent(st.tree, e), e)
             links == IF e.kind = "link" THEN Append(st.links, e) ELSE st.links
             bytes == IF Counted(e) THEN st.bytes + e.size ELSE st.bytes
  <2>1. new = [st EXCEPT !.tree = t, !.links = links, !.bytes = bytes]
    BY <1>4 DEF UnpackEntry
  <2>2. links \in Seq(HardLinks(entries))
    <3>1. CASE e.kind = "link"
      <4>1. e \in HardLinks(entries)
        BY <1>1, <1>4, <3>1 DEF HardLinks
      <4> QED
        BY <3>1, <4>1 DEF Unpacks
    <3>2. CASE e.kind # "link"
      BY <3>2 DEF Unpacks
    <3> QED
      BY <3>1, <3>2
  <2>3. IsTree(Names, t) /\ \A p \in Paths(Names) : Follows(st.tree, t, e, p)
    <3>1. /\ ParentsAreSafe(st.tree, e) /\ IsTree(Names, st.tree) /\ e.path \in Paths(Names)
          /\ e.kind \in {"file", "dir", "symlink", "link", "whiteout", "opaque"}
      BY <1>1, <1>4 DEF Rejected, Unpacks, Paths
    <3> HIDE DEF e
    <3> QED
      BY <3>1, EntryFollows
  <2> HIDE DEF t, links, bytes
  <2>7. Traced(entries, t)
    <3>1. Traced(entries, st.tree) /\ ~LeadsOut(e)
      BY <1>4 DEF Unpacks, Rejected
    <3> QED
      BY <1>1, <2>3, <3>1, EntryIsTraced
  <2>4. IsUnpacker(new) /\ new.tree = t /\ new.links = links /\ new.failed = st.failed
    BY <2>1 DEF Unpacks, IsUnpacker
  <2> HIDE DEF new
  <2>5. ASSUME NEW p \in Paths(Names), Unlinked(entries, p)
        PROVE  Agrees(t, entries, n + 1, p)
    <3>1. Agrees(st.tree, entries, n, p)
      BY <1>4, <2>5 DEF Unpacks
    <3> QED
      BY <1>1, <2>3, <3>1, FollowingAgrees
  <2>6. Unpacks(Names, new, entries, n + 1)
    BY <2>2, <2>3, <2>4, <2>5, <2>7 DEF Unpacks
  <2> QED
    BY <2>6 DEF new
<1> QED
  BY <1>2, <1>3, <1>4

LEMMA LinkUnpacks ==
    ASSUME NEW Names, NEW entries, AreEntries(Names, entries), NEW st, NEW n \in Nat,
           Unpacks(Names, st, entries, n), NEW e \in HardLinks(entries)
    PROVE  /\ Unpacks(Names, MakeLink(st, e), entries, n)
           /\ MakeLink(st, e).links = st.links
<1> DEFINE target == Followed(st.tree, e.path)
           cleared == remove_path(st.tree, target)
           origin == Followed(cleared, e.content)
           new == MakeLink(st, e)
           fails == \/ st.failed \/ ~IsFile(st.tree, Followed(st.tree, e.content))
                    \/ ~IsFile(cleared, origin) \/ Followed(cleared, e.path) # target
                    \/ \E k \in 1..(Len(target) - 1) : ~IsDir(cleared, SubSeq(target, 1, k))
<1>1. PICK i \in 1..Len(entries) : e = entries[i]
  BY DEF HardLinks
<1>2. e.kind = "link" /\ e.path \in Paths(Names)
  BY <1>1 DEF HardLinks, AreEntries, IsEntryOver, Paths
<1>3. CASE fails
  <2>1. new = [st EXCEPT !.failed = TRUE]
    BY <1>3 DEF MakeLink
  <2>2. IsUnpacker(new) /\ new.failed /\ new.links = st.links
    BY <2>1 DEF Unpacks, IsUnpacker
  <2> QED
    BY <2>2 DEF Unpacks
<1>4. CASE ~fails
  <2> DEFINE t == Put(cleared, target, cleared[origin])
  <2>1. new = [st EXCEPT !.tree = t]
    BY <1>4 DEF MakeLink
  <2>2. IsTree(Names, st.tree) /\ Traced(entries, st.tree) /\ ~st.failed
    BY <1>4 DEF Unpacks
  <2>3. target \in Paths(Names)
    BY <1>2, <2>2, FollowedIs
  <2>4. ASSUME NEW p, Unlinked(entries, p) PROVE ~IsPrefix(target, p)
    <3>1. \/ target = e.path
          \/ \E j \in 1..Len(entries), k \in 1..(Len(e.path) - 1) :
                /\ entries[j].kind = "symlink" /\ entries[j].path = SubSeq(e.path, 1, k)
                /\ target = Redirected(e.path, k, entries[j].content)
      BY <1>2, <2>2, FollowedIs
    <3> HIDE DEF target
    <3> QED
      BY <1>1, <1>2, <2>4, <3>1 DEF Unlinked
  <2>5. Places(Names, st.tree, t, target, cleared[origin]) /\ cleared[origin].kind = "file"
    <3> HIDE DEF target, origin
    <3>1. Plain(cleared[origin]) /\ cleared[origin].kind = "file"
      BY <1>4 DEF IsFile, Plain
    <3> QED
      BY <1>4, <2>2, <2>3, <3>1, LinkPlaces
  <2> HIDE DEF t
  <2>6. /\ IsUnpacker(new) /\ new.tree = t /\ new.links = st.links
        /\ new.failed = st.failed /\ ~st.failed
    BY <2>1, <2>2 DEF Unpacks, IsUnpacker
  <2> HIDE DEF new, target, cleared, origin
  <2>7. /\ IsTree(Names, t)
        /\ \A p \in Paths(Names) : ~IsPrefix(target, p) =>
               /\ p \in DOMAIN t <=> p \in DOMAIN st.tree
               /\ p \in DOMAIN st.tree => t[p] = st.tree[p]
    <3>1. IsPrefix(target, target)
      BY <2>3, PrefixOrder DEF Paths
    <3> QED
      BY <2>5, <3>1 DEF Places
  <2>8. Traced(entries, t)
    <3> SUFFICES ASSUME NEW p \in DOMAIN t PROVE IsOf(entries, p, t[p])
      BY DEF Traced
    <3>1. CASE p = target
      BY <2>5, <3>1 DEF Places, IsOf
    <3>2. CASE p # target
      BY <2>2, <2>5, <3>2 DEF Places, Traced
    <3> QED
      BY <3>1, <3>2
  <2>9. ASSUME NEW p \in Paths(Names), Unlinked(entries, p)
        PROVE  Agrees(t, entries, n, p)
    <3>1. Agrees(st.tree, entries, n, p)
      BY <2>2, <2>9 DEF Unpacks
    <3>2. ~IsPrefix(target, p)
      BY <2>4, <2>9
    <3> QED
      BY <2>7, <3>1, <3>2 DEF Agrees
  <2>10. Unpacks(Names, new, entries, n)
    BY <2>6, <2>7, <2>8, <2>9 DEF Unpacks
  <2> QED
    BY <2>6, <2>10 DEF new
<1> QED
  BY <1>3, <1>4

\* A tar over what the entries before it have left.
LEMMA TarUnpacks ==
    ASSUME NEW Names, NEW S, \A e \in S : IsEntryOver(Names, e),
           NEW old \in Seq(S), NEW tar \in Seq(S), NEW st, Unpacks(Names, st, old, Len(old)),
           NEW allowance
    PROVE  Unpacks(Names, UnpackOver(st, tar, allowance), old \o tar, Len(old \o tar))
<1> DEFINE entries == old \o tar
           seen == st.entries + Len(tar)
           limit == Min({MaxUnpackedBytes, st.bytes + allowance})
           failed == st.failed \/ seen > MaxEntries
           begun == [st EXCEPT !.links = << >>, !.entries = seen, !.limit = limit, !.failed = failed]
           unpacked == FoldLeft(UnpackEntry, begun, tar)
           made == FoldLeft(MakeLink, unpacked, unpacked.links)
<1>1. made = UnpackOver(st, tar, allowance)
  BY DEF UnpackOver
<1>2. /\ Len(entries) = Len(old) + Len(tar) /\ Len(entries) \in Nat /\ Len(old) \in Nat
      /\ Len(tar) \in Nat /\ entries \in Seq(S)
      /\ \A i \in 1..Len(tar) : entries[Len(old) + i] = tar[i]
      /\ \A i \in 1..Len(old) : entries[i] = old[i]
  OBVIOUS
<1> HIDE DEF entries
<1>3. AreEntries(Names, entries)
  BY <1>2 DEF AreEntries
<1>4. Unpacks(Names, begun, entries, Len(old))
  <2> HIDE DEF seen, limit, failed
  <2>1. /\ IsUnpacker(begun) /\ begun.links = << >> /\ begun.tree = st.tree
        /\ begun.failed = failed
    BY DEF Unpacks, IsUnpacker
  <2> HIDE DEF begun
  <2>2. begun.links \in Seq(HardLinks(entries))
    BY <2>1
  <2>3. ASSUME ~begun.failed
        PROVE  /\ IsTree(Names, st.tree) /\ Traced(entries, st.tree)
               /\ \A p \in Paths(Names) :
                     Unlinked(entries, p) => Agrees(st.tree, entries, Len(old), p)
    <3>1. ~st.failed
      BY <2>1, <2>3 DEF failed
    <3>2. ASSUME NEW p \in Paths(Names), Unlinked(entries, p)
          PROVE  Agrees(st.tree, entries, Len(old), p)
      <4>1. Unlinked(old, p)
        <5>1. \A i \in 1..Len(old) : i \in 1..Len(entries) /\ entries[i] = old[i]
          BY <1>2
        <5> SUFFICES ASSUME NEW i \in 1..Len(old), old[i].kind = "link"
                     PROVE  /\ ~IsPrefix(old[i].path, p)
                            /\ \A j \in 1..Len(old), k \in 1..(Len(old[i].path) - 1) :
                                  old[j].kind = "symlink" /\ old[j].path = SubSeq(old[i].path, 1, k) =>
                                      ~IsPrefix(Redirected(old[i].path, k, old[j].content), p)
          BY DEF Unlinked
        <5>2. i \in 1..Len(entries) /\ entries[i] = old[i]
          BY <5>1
        <5>3. /\ ~IsPrefix(old[i].path, p)
              /\ \A j \in 1..Len(entries), k \in 1..(Len(old[i].path) - 1) :
                    entries[j].kind = "symlink" /\ entries[j].path = SubSeq(old[i].path, 1, k) =>
                        ~IsPrefix(Redirected(old[i].path, k, entries[j].content), p)
          BY <3>2, <5>2 DEF Unlinked
        <5> QED
          BY <5>1, <5>3
      <4>2. Agrees(st.tree, old, Len(old), p)
        BY <3>1, <4>1 DEF Unpacks
      <4> QED
        BY <4>2, AgreesOnPrefix DEF entries
    <3>3. Traced(entries, st.tree)
      BY <1>2, <3>1 DEF Unpacks, Traced, IsOf
    <3> QED
      BY <3>1, <3>2, <3>3 DEF Unpacks
  <2> QED
    BY <2>1, <2>2, <2>3 DEF Unpacks
<1> HIDE DEF begun
<1>5. Unpacks(Names, unpacked, entries, Len(entries))
  <2>1. PICK f : /\ f[0] = begun
                 /\ \A n \in 1..Len(tar) : f[n] = UnpackEntry(f[n - 1], tar[n])
                 /\ unpacked = f[Len(tar)]
    BY EntryStates
  <2> HIDE DEF unpacked
  <2> DEFINE T == {n \in Nat : Unpacks(Names, f[n], entries, Len(old) + n)}
  <2>2. 0 \in T
    BY <1>2, <1>4, <2>1
  <2>3. ASSUME NEW n \in 0..(Len(tar) - 1), n \in T PROVE n + 1 \in T
    <3>1. /\ f[n + 1] = UnpackEntry(f[n], entries[(Len(old) + n) + 1])
          /\ (Len(old) + n) + 1 = Len(old) + (n + 1)
          /\ Len(old) + n \in 0..(Len(entries) - 1) /\ n + 1 \in Nat
      <4>1. n + 1 \in 1..Len(tar) /\ (n + 1) - 1 = n
        BY <1>2
      <4>2. f[n + 1] = UnpackEntry(f[n], tar[n + 1])
        BY <2>1, <4>1
      <4> QED
        BY <1>2, <4>1, <4>2
    <3>2. Unpacks(Names, f[n], entries, Len(old) + n)
      BY <2>3
    <3> QED
      BY <1>3, <3>1, <3>2, EntryUnpacks
  <2>4. Len(tar) \in T
    <3> HIDE DEF T
    <3> QED
      BY <1>2, <2>2, <2>3, Entries!EndIsReached
  <2> QED
    BY <1>2, <2>1, <2>4
<1> HIDE DEF unpacked
<1>6. Unpacks(Names, made, entries, Len(entries))
  <2>1. unpacked.links \in Seq(HardLinks(entries)) /\ Len(unpacked.links) \in Nat
    BY <1>5 DEF Unpacks
  <2>2. PICK f : /\ f[0] = unpacked
                 /\ \A n \in 1..Len(unpacked.links) :
                       f[n] = MakeLink(f[n - 1], unpacked.links[n])
                 /\ made = f[Len(unpacked.links)]
    BY <2>1, LinkStates
  <2> HIDE DEF made
  <2> DEFINE T == {n \in Nat : Unpacks(Names, f[n], entries, Len(entries))}
  <2>3. 0 \in T
    BY <1>5, <2>2
  <2>4. ASSUME NEW n \in 0..(Len(unpacked.links) - 1), n \in T PROVE n + 1 \in T
    <3>1. /\ f[n + 1] = MakeLink(f[n], unpacked.links[n + 1]) /\ n + 1 \in Nat
          /\ unpacked.links[n + 1] \in HardLinks(entries)
      <4>1. n + 1 \in 1..Len(unpacked.links) /\ (n + 1) - 1 = n
        BY <2>1
      <4> QED
        BY <2>1, <2>2, <4>1
    <3> QED
      BY <1>2, <1>3, <2>4, <3>1, LinkUnpacks
  <2>5. Len(unpacked.links) \in T
    <3> HIDE DEF T
    <3> QED
      BY <2>1, <2>3, <2>4, Links!EndIsReached
  <2> QED
    BY <2>2, <2>5
<1> HIDE DEF made
<1> QED
  BY <1>1, <1>6 DEF entries

-----------------------------------------------------------------------------
(***************************************************************************)
(* What has been unpacked is the reference.                                *)
(***************************************************************************)
IsMerged(t, entries) ==
    \A p \in DOMAIN t \cup DOMAIN Merged(entries) : Unlinked(entries, p) =>
        /\ p \in DOMAIN t \cap DOMAIN Merged(entries)
        /\ t[p] = Merged(entries)[p]

LEMMA UnpackedMerges ==
    ASSUME NEW Names, NEW entries, AreEntries(Names, entries), NEW st,
           Unpacks(Names, st, entries, Len(entries)), ~st.failed
    PROVE  IsMerged(st.tree, entries)
<1>1. IsTree(Names, st.tree)
  BY DEF Unpacks
<1>2. DOMAIN Merged(entries) \subseteq Paths(Names)
  <2>1. DOMAIN Merged(entries) = MergedPaths(entries)
    BY DEF Merged
  <2>2. ASSUME NEW p \in MergedPaths(entries) PROVE p \in Paths(Names)
    <3>1. PICK i \in 1..Len(entries) : Provides(entries[i], p)
      BY <2>2 DEF MergedPaths, Providers
    <3>2. entries[i].path \in Seq(Names)
      BY DEF AreEntries, IsEntryOver
    <3> QED
      BY <3>1, <3>2, ParentsAre DEF Provides, Paths
  <2> QED
    BY <2>1, <2>2
<1> SUFFICES ASSUME NEW p \in DOMAIN st.tree \cup DOMAIN Merged(entries), Unlinked(entries, p)
             PROVE  /\ p \in DOMAIN st.tree \cap DOMAIN Merged(entries)
                    /\ st.tree[p] = Merged(entries)[p]
  BY DEF IsMerged
<1>3. p \in Paths(Names)
  BY <1>1, <1>2 DEF IsTree
<1>4. Agrees(st.tree, entries, Len(entries), p)
  BY <1>3 DEF Unpacks
<1>5. /\ p \in DOMAIN st.tree <=> p \in DOMAIN Merged(entries)
      /\ p \in DOMAIN st.tree => st.tree[p] = Merged(entries)[p]
  <2>1. Len(entries) \in Nat /\ \A i \in 1..Len(entries) : entries[i].path \in Seq(Names)
    BY DEF AreEntries, IsEntryOver
  <2> HIDE DEF Merged
  <2> QED
    BY <1>3, <1>4, <2>1, AgreedIsMerged
<1> QED
  BY <1>5

LEMMA StartUnpacks == \A Names : Unpacks(Names, Start, << >>, 0)
<1> SUFFICES ASSUME NEW Names PROVE Unpacks(Names, Start, << >>, 0)
  OBVIOUS
<1>1. IsUnpacker(Start) /\ Start.links = << >> /\ Start.tree = << >>
  BY DEF Start, IsUnpacker
<1>2. DOMAIN Start.tree = {}
  BY <1>1
<1>3. IsTree(Names, Start.tree)
  BY <1>2 DEF IsTree
<1>4. \A p : Agrees(Start.tree, << >>, 0, p)
  BY <1>2 DEF Agrees
<1>5. Start.links \in Seq(HardLinks(<< >>)) /\ Traced(<< >>, Start.tree)
  BY <1>1, <1>2 DEF Traced
<1> QED
  BY <1>1, <1>3, <1>4, <1>5 DEF Unpacks

\* The layer of a build.
LEMMA TarIsMerged ==
    ASSUME NEW tar, IsTar(tar), ~UnpackTar(tar).failed
    PROVE  IsMerged(UnpackTar(tar).tree, tar)
<1> DEFINE S == Range(tar)
           Names == UNION ({Range(e.path) : e \in S}
                           \cup {Range(e.content) : e \in {e \in S : e.kind = "symlink"}})
<1>1. tar \in Seq(S) /\ S = {tar[i] : i \in 1..Len(tar)} /\ Len(tar) \in Nat
  BY DEF IsTar, IsList, Range
<1>2. ASSUME NEW e \in S PROVE IsEntryOver(Names, e)
  <2>1. /\ e.path \in Seq(Range(e.path))
        /\ e.kind = "symlink" => e.content = Outside \/ e.content \in Seq(Range(e.content))
    BY <1>1 DEF IsTar, IsList
  <2>2. /\ Range(e.path) \subseteq Names
        /\ e.kind = "symlink" => Range(e.content) \subseteq Names
    <3> HIDE DEF S
    <3> QED
      OBVIOUS
  <2> HIDE DEF Names
  <2> QED
    BY <2>1, <2>2 DEF IsEntryOver
<1> HIDE DEF S, Names
<1>3. << >> \in Seq(S) /\ Len(<< >>) = 0 /\ << >> \o tar = tar
  BY <1>1
<1>4. Unpacks(Names, UnpackTar(tar), tar, Len(tar))
  <2>1. Unpacks(Names, Start, << >>, Len(<< >>))
    BY <1>3, StartUnpacks
  <2>2. Unpacks(Names, UnpackOver(Start, tar, MaxUnpackedBytes), << >> \o tar, Len(<< >> \o tar))
    BY <1>1, <1>2, <1>3, <2>1, TarUnpacks
  <2> QED
    BY <1>3, <2>2 DEF UnpackTar
<1>5. AreEntries(Names, tar)
  BY <1>1, <1>2 DEF AreEntries
<1> QED
  BY <1>4, <1>5, UnpackedMerges

\* The layers of an image, one after the other.
LEMMA LayersAreMerged ==
    ASSUME NEW image, IsList(image.layers),
           \A i \in 1..Len(image.layers) : IsTar(image.layers[i].tar),
           ~UnpackLayers(image).failed
    PROVE  IsMerged(UnpackLayers(image).tree, FlattenSeq(image.diff_ids))
<1> DEFINE layers == image.layers
           m == Len(layers)
           tars == image.diff_ids
           S == UNION {Range(layers[i].tar) : i \in 1..m}
           Names == UNION ({Range(e.path) : e \in S}
                           \cup {Range(e.content) : e \in {e \in S : e.kind = "symlink"}})
<1>1. /\ tars = [i \in DOMAIN layers |-> layers[i].tar]
      /\ UnpackLayers(image) = FoldLeft(UnpackLayer, Start, layers)
  BY DEF UnpackLayers, Start, DiffIdsFit
<1>2. m \in Nat /\ DOMAIN layers = 1..m /\ layers \in Seq(Range(layers))
  BY DEF IsList
<1>3. ASSUME NEW i \in 1..m
      PROVE  /\ tars[i] = layers[i].tar /\ tars[i] \in Seq(S)
             /\ \A e \in Range(tars[i]) :
                   /\ IsList(e.path)
                   /\ e.kind = "symlink" => e.content = Outside \/ IsList(e.content)
  <2>1. tars[i] = layers[i].tar /\ IsTar(tars[i])
    BY <1>1, <1>2
  <2>2. tars[i] \in Seq(Range(tars[i])) /\ Range(tars[i]) \subseteq S
    BY <2>1 DEF IsTar, IsList
  <2>3. \A e \in Range(tars[i]) :
            /\ IsList(e.path)
            /\ e.kind = "symlink" => e.content = Outside \/ IsList(e.content)
    BY <2>1, <2>2 DEF IsTar, Range
  <2> HIDE DEF S, tars
  <2> QED
    BY <2>1, <2>2, <2>3
<1>4. ASSUME NEW e \in S PROVE IsEntryOver(Names, e)
  <2>1. /\ e.path \in Seq(Range(e.path))
        /\ e.kind = "symlink" => e.content = Outside \/ e.content \in Seq(Range(e.content))
    BY <1>3 DEF IsList
  <2>2. /\ Range(e.path) \subseteq Names
        /\ e.kind = "symlink" => Range(e.content) \subseteq Names
    <3> HIDE DEF S
    <3> QED
      OBVIOUS
  <2> HIDE DEF Names
  <2> QED
    BY <2>1, <2>2 DEF IsEntryOver
<1>5. tars \in Seq(Seq(S)) /\ Len(tars) = m
  <2> HIDE DEF S
  <2>1. tars \in [1..m -> Seq(S)]
    BY <1>1, <1>2, <1>3
  <2> QED
    BY <1>2, <2>1
<1>6. PICK flat : /\ flat[0] = << >>
                  /\ \A n \in 1..m : flat[n] = flat[n - 1] \o tars[n]
                  /\ FlattenSeq(tars) = flat[m]
  <2> HIDE DEF tars, S
  <2> QED
    BY <1>5, FlattenStates
<1> DEFINE last == FoldLeft(UnpackLayer, Start, layers)
<1>7. PICK f : /\ f[0] = Start
               /\ \A n \in 1..m : f[n] = UnpackLayer(f[n - 1], layers[n])
               /\ last = f[m]
  <2>1. IsList(layers)
    OBVIOUS
  <2> HIDE DEF layers
  <2> QED
    BY <2>1, ListedLayerStates
<1> DEFINE T == {n \in Nat : /\ flat[n] \in Seq(S)
                             /\ Unpacks(Names, f[n], flat[n], Len(flat[n]))}
<1> HIDE DEF S, Names, last
<1>8. 0 \in T
  <2>1. << >> \in Seq(S) /\ Len(<< >>) = 0
    OBVIOUS
  <2>2. Unpacks(Names, Start, << >>, 0)
    BY StartUnpacks
  <2>3. flat[0] \in Seq(S) /\ Unpacks(Names, f[0], flat[0], Len(flat[0]))
    <3>1. flat[0] = << >> /\ f[0] = Start
      BY <1>6, <1>7
    <3> QED
      BY <2>1, <2>2, <3>1
  <2> QED
    BY <2>3
<1>9. ASSUME NEW n \in 0..(m - 1), n \in T PROVE n + 1 \in T
  <2> HIDE DEF tars, layers
  <2>1. n + 1 \in 1..m /\ (n + 1) - 1 = n /\ n + 1 \in Nat
    BY <1>2
  <2>2. flat[n + 1] = flat[n] \o tars[n + 1] /\ tars[n + 1] \in Seq(S)
    BY <1>3, <1>6, <2>1
  <2>3. PICK allowance : f[n + 1] = UnpackOver(f[n], tars[n + 1], allowance)
    BY <1>3, <1>7, <2>1 DEF UnpackLayer
  <2>4. Unpacks(Names, UnpackOver(f[n], tars[n + 1], allowance), flat[n] \o tars[n + 1],
                Len(flat[n] \o tars[n + 1]))
    BY <1>4, <1>9, <2>2, TarUnpacks
  <2>5. flat[n] \o tars[n + 1] \in Seq(S)
    BY <1>9, <2>2
  <2> QED
    BY <2>1, <2>2, <2>3, <2>4, <2>5
<1>10. m \in T
  <2> HIDE DEF T, m
  <2> QED
    BY <1>2, <1>8, <1>9, Layers!EndIsReached
<1>11. AreEntries(Names, flat[m])
  BY <1>4, <1>10 DEF AreEntries
<1>12. IsMerged(f[m].tree, flat[m])
  BY <1>1, <1>7, <1>10, <1>11, UnpackedMerges DEF last
<1> QED
  BY <1>1, <1>6, <1>7, <1>12 DEF last

\* The layers of an image archive, whatever its format.
LEMMA ArchiveIsMerged ==
    ASSUME NEW image, IsList(image.layers),
           \A i \in 1..Len(image.layers) : IsTar(image.layers[i].tar),
           ~unpack_image_archive(image).failed
    PROVE  IsMerged(unpack_image_archive(image).tree, FlattenSeq(image.diff_ids))
<1>1. [Start EXCEPT !.failed = TRUE].failed
  BY DEF Start
<1>2. unpack_image_archive(image) \in {UnpackLayers(image), [Start EXCEPT !.failed = TRUE]}
  BY DEF unpack_image_archive, reconstruct_docker_archive, reconstruct_oci_archive
<1>3. unpack_image_archive(image) = UnpackLayers(image)
  BY <1>1, <1>2
<1> QED
  BY <1>3, LayersAreMerged

-----------------------------------------------------------------------------
(***************************************************************************)
(* The unpacked tree is the reference for as long as it is scanned: what is *)
(* unpacked is a tar of the request, and nothing else writes rootfs meanwhile. *)
(***************************************************************************)
UnpackInv ==
    /\ pc = "unpack" => request \in Requests /\ request.kind \in {"build", "image"}
    /\ UnpackedIsMerged

LEMMA MergedIs == UnpackedIsMerged <=> (pc = "layer" => IsMerged(rootfs, Named))
BY DEF UnpackedIsMerged, IsMerged

LEMMA UnpackMerges ==
    ASSUME UnpackInv, Unpack
    PROVE  IsMerged(rootfs', Named) /\ request' = request
<1>1. /\ request \in Requests /\ request.kind \in {"build", "image"}
      /\ ~Unpacked.failed /\ rootfs' = Unpacked.tree /\ request' = request
  BY DEF UnpackInv, Unpack
<1>2. CASE request.kind = "build"
  <2>1. IsTar(request.tar) /\ Unpacked = UnpackTar(request.tar) /\ Named = request.tar
    BY <1>1, <1>2, TarsAssumption DEF Unpacked, Named
  <2> QED
    BY <1>1, <2>1, TarIsMerged
<1>3. CASE request.kind = "image"
  <2>1. /\ IsList(request.image.layers)
        /\ \A i \in 1..Len(request.image.layers) : IsTar(request.image.layers[i].tar)
        /\ Unpacked = unpack_image_archive(request.image)
        /\ Named = FlattenSeq(request.image.diff_ids)
    BY <1>1, <1>3, TarsAssumption DEF Unpacked, Named
  <2> QED
    BY <1>1, <2>1, ArchiveIsMerged
<1> QED
  BY <1>1, <1>2, <1>3

LEMMA UnpackInvStays ==
    ASSUME IInv, UnpackInv, [Next]_vars
    PROVE  UnpackInv'
<1>1. CASE \E q \in Requests : Begin(q) \/ BeginScan(q)
  <2>1. PICK q \in Requests : Begin(q) \/ BeginScan(q)
    BY <1>1
  <2>2. request' = q /\ pc' # "layer" /\ (pc' = "unpack" => q.kind \in {"build", "image"})
    BY <2>1 DEF Begin, BeginScan
  <2> QED
    BY <2>1, <2>2 DEF UnpackInv, UnpackedIsMerged
<1>2. CASE Recheck
  <2>1. request' = request /\ pc' # "layer" /\ request \in Requests /\ request.kind = "build"
    BY <1>2 DEF Recheck, IInv, RequestInv
  <2> QED
    BY <2>1 DEF UnpackInv, UnpackedIsMerged
<1>3. CASE Walk \/ WalkFails \/ FinishWalk \/ Edit \/ Intake \/ UnpackFails \/ Assess \/ Answer
  <2>1. pc' \notin {"unpack", "layer"}
    BY <1>3
       DEF Walk, WalkFails, Walking, FinishWalk, Edit, Intake, UnpackFails, Assess, Answer
  <2> QED
    BY <2>1 DEF UnpackInv, UnpackedIsMerged
<1>4. CASE \/ LookupDisabled \/ NothingToLookUp \/ ChunkFails \/ FinishLookup
           \/ \E advisories \in SUBSET Advisories : ChunkAnswered(advisories)
           \/ UNCHANGED vars
  <2>1. UNCHANGED <<request, rootfs>> /\ (pc' \in {"unpack", "layer"} => pc' = pc)
    <3>1. CASE UNCHANGED vars
      BY <3>1 DEF vars
    <3>2. CASE ~UNCHANGED vars
      <4>1. UNCHANGED <<request, rootfs>> /\ (LookupEnds \/ pc' = pc)
        BY <1>4, <3>2
           DEF LookupDisabled, NothingToLookUp, ChunkFails, FinishLookup, ChunkAnswered, Sending
      <4> QED
        BY <4>1 DEF LookupEnds
    <3> QED
      BY <3>1, <3>2
  <2> QED
    BY <2>1 DEF UnpackInv, UnpackedIsMerged, Named
<1>5. CASE Unpack
  <2>1. IsMerged(rootfs', Named) /\ request' = request
    BY <1>5, UnpackMerges
  <2>2. pc' = "layer" /\ Named' = Named
    BY <1>5, <2>1 DEF Unpack, Named
  <2> QED
    BY <2>1, <2>2 DEF UnpackInv, UnpackedIsMerged, IsMerged
<1> QED
  BY <1>1, <1>2, <1>3, <1>4, <1>5 DEF Next

\* For any tars and any layers, the tree that is scanned is the merge of their entries by the
\* reference, wherever no hard link leads (unpack_layer_archive, unpack_image_archive).
THEOREM UnpackingMerges == Spec => []UnpackedIsMerged
<1>1. Init => UnpackInv
  BY DEF Init, UnpackInv, UnpackedIsMerged
<1>2. IInv /\ UnpackInv /\ [Next]_vars => UnpackInv'
  BY UnpackInvStays
<1>3. UnpackInv => UnpackedIsMerged
  BY DEF UnpackInv
<1> QED
  BY Invariance, <1>1, <1>2, <1>3, PTL DEF Spec

-----------------------------------------------------------------------------
(***************************************************************************)
(* What is allowed, for the files that were inspected, and for those of the *)
(* layer by the reference of LayerUnpack.                                  *)
(***************************************************************************)
\* Nothing speaks against any file of the source inventory or of the unpacked tree of an
\* allowed build (evaluate_gate after scan_file and compare_recipe_metadata).
THEOREM InspectedFilesAreClean == Spec => []InspectedIsClean
<1>1. IInv => InspectedIsClean
  BY DEF IInv
<1> QED
  BY Invariance, <1>1, PTL

\* The components of each file of the unpacked tree of an allowed build were looked up, where
\* a lookup is required (evaluate_gate after enrich_report_with_osv).
THEOREM InspectedFilesAreLookedUp == Spec => []InspectedWasLookedUp
<1>1. IInv => InspectedWasLookedUp
  BY DEF IInv
<1> QED
  BY Invariance, <1>1, PTL

LayerFilesAreThere ==
    \A file \in LayerFiles : \E p \in DOMAIN rootfs :
        rootfs[p].kind = "file" /\ file = FileAt(p, rootfs[p].content)

MergedInv == pc \in {"layer", "assess"} \/ verdict = "allowed" => LayerFilesAreThere

LEMMA MergedRests ==
    ASSUME MergedInv, UNCHANGED <<request, rootfs>>,
           pc' \in {"layer", "assess"} \/ verdict' = "allowed" =>
               pc \in {"layer", "assess"} \/ verdict = "allowed"
    PROVE  MergedInv'
BY DEF MergedInv, LayerFilesAreThere, LayerFiles, Named

LEMMA MergedStays ==
    ASSUME IInv, MergedInv, [Next]_vars, UnpackedIsMerged'
    PROVE  MergedInv'
<1>1. /\ None # "allowed" /\ None # "denied"
      /\ pc # "done" => verdict = None
  BY InspectionAssumption DEF IInv, RequestInv
<1>2. CASE \/ \E q \in Requests : Begin(q) \/ BeginScan(q)
           \/ Walk \/ WalkFails \/ FinishWalk \/ Edit \/ Recheck \/ UnpackFails
  <2>1. pc' \notin {"layer", "assess"} /\ pc # "done" /\ verdict' = verdict
    BY <1>2 DEF Begin, BeginScan, Walk, WalkFails, Walking, FinishWalk, Edit, Recheck, UnpackFails
  <2> QED
    BY <1>1, <2>1 DEF MergedInv
<1>3. CASE Intake \/ Answer
  <2>1. pc' \notin {"layer", "assess"} /\ verdict' \in {verdict, "denied", None}
        /\ (verdict' = verdict => verdict = None \/ verdict' = None)
    BY <1>1, <1>3 DEF Intake, Answer
  <2> QED
    BY <1>1, <2>1 DEF MergedInv
<1>4. CASE \/ LookupDisabled \/ NothingToLookUp \/ ChunkFails \/ FinishLookup
           \/ \E advisories \in SUBSET Advisories : ChunkAnswered(advisories)
  <2>1. UNCHANGED <<request, rootfs, verdict>> /\ (LookupEnds \/ pc' = pc) /\ InLookup
    BY <1>4 DEF LookupDisabled, NothingToLookUp, ChunkFails, FinishLookup, ChunkAnswered, Sending
  <2>2. pc' \in {"layer", "assess"} => pc \in {"layer", "assess"}
    BY <2>1 DEF LookupEnds, InLookup
  <2> QED
    BY <2>1, <2>2, MergedRests
<1>5. CASE Assess
  BY <1>5, MergedRests DEF Assess
<1>6. CASE UNCHANGED vars
  BY <1>6, MergedRests DEF vars
<1>7. CASE Unpack
  <2>1. pc' = "layer"
    BY <1>7 DEF Unpack
  <2>2. LayerFilesAreThere'
    BY <2>1 DEF UnpackedIsMerged, LayerFilesAreThere, LayerFiles, FileAt
  <2> QED
    BY <2>2 DEF MergedInv
<1> QED
  BY <1>2, <1>3, <1>4, <1>5, <1>6, <1>7 DEF Next

LEMMA MergedIsInvariant == Spec => []MergedInv
<1>1. Init => MergedInv
  BY InspectionAssumption DEF Init, MergedInv
<1>2. IInv /\ MergedInv /\ [Next]_vars /\ UnpackedIsMerged' => MergedInv'
  BY MergedStays
<1> QED
  BY Invariance, UnpackingMerges, <1>1, <1>2, PTL DEF Spec

\* A build is allowed only if every file of its source, and of its layer by the reference, is
\* clean (scan_file, the parsers, compare_recipe_metadata, evaluate_gate).
THEOREM AllowedBuildIsClean == Spec => []AllowedIsClean
<1>1. ASSUME IInv, MergedInv PROVE AllowedIsClean
  <2> SUFFICES ASSUME verdict = "allowed"
               PROVE  /\ \A file \in SourceFiles : CleanAmong(source.filesystem, file)
                      /\ \A file \in LayerFiles : CleanAmong(rootfs, file)
    BY DEF AllowedIsClean
  <2>1. CleanExcept(source.filesystem, source.raced) /\ CleanExcept(rootfs, {})
    BY <1>1 DEF IInv, InspectedIsClean
  <2>2. \A file \in SourceFiles : CleanAmong(source.filesystem, file)
    BY <2>1 DEF SourceFiles, CleanExcept, FileAt
  <2>3. \A file \in LayerFiles : CleanAmong(rootfs, file)
    BY <1>1, <2>1 DEF MergedInv, LayerFilesAreThere, CleanExcept
  <2> QED
    BY <2>2, <2>3
<1> QED
  BY Invariance, MergedIsInvariant, <1>1, PTL

\* No component of a file of the layer, by the reference, slips through a required lookup
\* (enrich_report_with_osv, evaluate_gate).
THEOREM AllowedBuildIsLookedUp == Spec => []AllowedWasLookedUp
<1>1. ASSUME IInv, MergedInv PROVE AllowedWasLookedUp
  <2> SUFFICES ASSUME verdict = "allowed", LookupRequired,
                      NEW file \in LayerFiles, IsText(file.content),
                      NEW c \in Parsed(file.path, file.content).components, ecosystem(c.kind) # None
               PROVE  \E m \in matches : KeyOf(m[1]) = c /\ m[2] = {}
    BY DEF AllowedWasLookedUp, LookupRequired
  <2>1. PICK p \in DOMAIN rootfs : rootfs[p].kind = "file" /\ file = FileAt(p, rootfs[p].content)
    BY <1>1 DEF MergedInv, LayerFilesAreThere
  <2>2. file.path = p /\ file.content = rootfs[p].content
    BY <2>1 DEF FileAt
  <2> QED
    BY <1>1, <2>1, <2>2 DEF IInv, InspectedWasLookedUp
<1> QED
  BY Invariance, MergedIsInvariant, <1>1, PTL

-----------------------------------------------------------------------------
(***************************************************************************)
(* A scan is the sum of its files: what scan_file finds in one of them     *)
(* does not depend on what was found before.                               *)
(***************************************************************************)
Merges(old, new, found) ==
    /\ old \subseteq new /\ new \subseteq old \cup found
    /\ \A c \in found : \E d \in new : KeyOf(d) = KeyOf(c)

\* What another scanner, which had nothing before, has found in one file joins the old.
Plus(old, new, found, path) ==
    /\ IsScanner(new) /\ IsScanner(found)
    /\ new.findings = old.findings \cup found.findings
    /\ new.crypto = old.crypto \cup found.crypto
    /\ new.requires = old.requires \cup found.requires
    /\ new.checksums = old.checksums \cup found.checksums
    /\ Merges(old.components, new.components, found.components)
    /\ \A e \in found.findings \cup found.crypto \cup found.components : e.evidence = path

Blank(st) ==
    /\ IsScanner(st)
    /\ st.findings = {} /\ st.crypto = {} /\ st.requires = {} /\ st.checksums = {}
    /\ st.components = {}

LEMMA StartIsBlank == Blank(ScannerState) /\ Blank([ScannerState EXCEPT !.files_scanned = @ + 1])
BY DEF Blank, ScannerState, IsScanner

LEMMA DigestIsPlus ==
    ASSUME NEW st, IsScanner(st), NEW blank, Blank(blank), NEW path, NEW p, NEW content
    PROVE  LET found == [blank EXCEPT !.digests = With(@, p, content)]
           IN  /\ Plus(st, [st EXCEPT !.digests = With(@, p, content)], found, path)
               /\ found.components = {}
BY DEF Blank, IsScanner, Plus, Merges

LEMMA AddIsPlus ==
    ASSUME NEW old, NEW st, NEW found, NEW path, Plus(old, st, found, path),
           NEW findings, NEW candidates, \A f \in findings : f.evidence = path
    PROVE  LET new == Add(found, findings, candidates)
           IN  /\ Plus(old, Add(st, findings, candidates), new, path)
               /\ new.components = found.components
<1>1. \A s : IsScanner(s) =>
          LET new == Add(s, findings, candidates)
          IN  /\ IsScanner(new) /\ new.findings = s.findings \cup findings
              /\ new.crypto = s.crypto /\ new.components = s.components
              /\ new.requires = s.requires /\ new.checksums = s.checksums
  BY DEF IsScanner, Add
<1> DEFINE next == Add(st, findings, candidates)
           new == Add(found, findings, candidates)
<1>2. /\ IsScanner(next) /\ next.findings = st.findings \cup findings
      /\ next.crypto = st.crypto /\ next.components = st.components
      /\ next.requires = st.requires /\ next.checksums = st.checksums
  BY <1>1 DEF Plus
<1>3. /\ IsScanner(new) /\ new.findings = found.findings \cup findings
      /\ new.crypto = found.crypto /\ new.components = found.components
      /\ new.requires = found.requires /\ new.checksums = found.checksums
  BY <1>1 DEF Plus
<1> HIDE DEF new, next
<1>4. Plus(old, next, new, path)
  BY <1>2, <1>3 DEF Plus
<1> QED
  BY <1>3, <1>4 DEF new, next

LEMMA CryptoIsPlus ==
    ASSUME NEW old, NEW st, NEW found, NEW path, Plus(old, st, found, path),
           NEW added, \A e \in added : e.evidence = path
    PROVE  Plus(old, [st EXCEPT !.crypto = @ \cup added], [found EXCEPT !.crypto = @ \cup added], path)
<1>1. \A s : IsScanner(s) =>
          LET new == [s EXCEPT !.crypto = @ \cup added]
          IN  /\ IsScanner(new) /\ new.crypto = s.crypto \cup added
              /\ new.findings = s.findings /\ new.components = s.components
              /\ new.requires = s.requires /\ new.checksums = s.checksums
  BY DEF IsScanner
<1> DEFINE next == [st EXCEPT !.crypto = @ \cup added]
           new == [found EXCEPT !.crypto = @ \cup added]
<1>2. /\ IsScanner(next) /\ next.crypto = st.crypto \cup added
      /\ next.findings = st.findings /\ next.components = st.components
      /\ next.requires = st.requires /\ next.checksums = st.checksums
  BY <1>1 DEF Plus
<1>3. /\ IsScanner(new) /\ new.crypto = found.crypto \cup added
      /\ new.findings = found.findings /\ new.components = found.components
      /\ new.requires = found.requires /\ new.checksums = found.checksums
  BY <1>1 DEF Plus
<1> HIDE DEF new, next
<1>4. Plus(old, next, new, path)
  BY <1>2, <1>3 DEF Plus
<1> QED
  BY <1>4 DEF new, next

LEMMA PoliciesArePlus ==
    ASSUME NEW old, NEW st, NEW found, NEW path, Plus(old, st, found, path), NEW policies
    PROVE  LET new == AddPolicies(found, policies, path)
           IN  /\ Plus(old, AddPolicies(st, policies, path), new, path)
               /\ new.components = found.components
<1> DEFINE added == {add_sbom_policy_finding(policy, path) : policy \in policies}
           findings == {a.finding : a \in added}
           candidates == {a.candidate : a \in added}
<1>1. \A f \in findings : f.evidence = path
  BY DEF add_sbom_policy_finding, Finding
<1>2. \A s : AddPolicies(s, policies, path) = Add(s, findings, candidates)
  BY DEF AddPolicies
<1> HIDE DEF findings, candidates
<1>3. /\ Plus(old, Add(st, findings, candidates), Add(found, findings, candidates), path)
      /\ Add(found, findings, candidates).components = found.components
  BY <1>1, AddIsPlus
<1> QED
  BY <1>2, <1>3

LEMMA ComponentsMerge ==
    ASSUME NEW old, NEW path, NEW keys, \A k \in keys : IsKey(k)
    PROVE  /\ Merges(old, add_components(old, path, keys), add_components({}, path, keys))
           /\ \A c \in add_components({}, path, keys) : c.evidence = path
<1> DEFINE Entry(k) == [kind |-> k.kind, name |-> k.name, version |-> k.version, evidence |-> path]
           new == add_components(old, path, keys)
           found == add_components({}, path, keys)
<1>1. /\ new = old \cup {Entry(k) : k \in {k \in keys : \A d \in old : KeyOf(d) # k}}
      /\ found = {Entry(k) : k \in keys}
  BY DEF add_components
<1>2. \A k \in keys : KeyOf(Entry(k)) = k /\ Entry(k).evidence = path
  BY DEF KeyOf, IsKey
<1> HIDE DEF Entry, new, found
<1>3. old \subseteq new /\ new \subseteq old \cup found
  BY <1>1
<1>4. ASSUME NEW c \in found PROVE \E d \in new : KeyOf(d) = KeyOf(c)
  <2>1. PICK k \in keys : c = Entry(k)
    BY <1>1
  <2>2. CASE \E d \in old : KeyOf(d) = k
    BY <1>2, <1>3, <2>1, <2>2
  <2>3. CASE ~\E d \in old : KeyOf(d) = k
    BY <1>1, <2>1, <2>3
  <2> QED
    BY <2>2, <2>3
<1>5. \A c \in found : c.evidence = path
  BY <1>1, <1>2
<1> QED
  BY <1>3, <1>4, <1>5 DEF Merges, new, found

LEMMA TextIsPlus ==
    ASSUME NEW old, NEW st, NEW found, NEW recipe, NEW path, NEW c,
           Plus(old, st, found, path), found.components = {}
    PROVE  Plus(old, InspectText(recipe, path, c, st), InspectText(recipe, path, c, found), path)
<1> DEFINE parsed == Parsed(path, c)
           errors == IF parsed.error THEN {Finding("parse-error", "high", path)} ELSE {}
           policed(s) == AddPolicies(s, parsed.policies, path)
           listed(s) == [s EXCEPT
                            !.components = add_components(@, path, parsed.components),
                            !.requires = @ \cup parsed.requires,
                            !.checksums = @ \cup parsed.checksums,
                            !.findings = @ \cup errors]
           searched(s) == scan_crypto_material(path, c, s)
           suspected(s) == scan_suspicious_text(recipe, path, c, s)
           aligned(s) == scan_recipe_alignment(recipe, path, c, s)
<1>1. \A s : InspectText(recipe, path, c, s) = aligned(suspected(searched(listed(policed(s)))))
  BY DEF InspectText
<1>2. /\ Plus(old, policed(st), policed(found), path)
      /\ policed(found).components = {}
  BY PoliciesArePlus
<1>3. ASSUME NEW s, NEW f, Plus(old, s, f, path), f.components = {}
      PROVE  Plus(old, listed(s), listed(f), path)
  <2>1. /\ Merges(old.components, add_components(old.components, path, parsed.components),
                  add_components({}, path, parsed.components))
        /\ \A d \in add_components({}, path, parsed.components) : d.evidence = path
    BY ParsedIsKnown, ComponentsMerge
  <2>2. s.components = old.components
    BY <1>3 DEF Plus, Merges
  <2>3. \A e \in errors : e.evidence = path
    BY DEF Finding
  <2> HIDE DEF parsed, errors
  <2>4. \A z : IsScanner(z) =>
           /\ IsScanner(listed(z)) /\ listed(z).findings = z.findings \cup errors
           /\ listed(z).crypto = z.crypto
           /\ listed(z).components = add_components(z.components, path, parsed.components)
           /\ listed(z).requires = z.requires \cup parsed.requires
           /\ listed(z).checksums = z.checksums \cup parsed.checksums
    BY DEF IsScanner
  <2> HIDE DEF listed
  <2>5. /\ IsScanner(listed(s)) /\ listed(s).findings = s.findings \cup errors
        /\ listed(s).crypto = s.crypto
        /\ listed(s).components = add_components(old.components, path, parsed.components)
        /\ listed(s).requires = s.requires \cup parsed.requires
        /\ listed(s).checksums = s.checksums \cup parsed.checksums
    BY <1>3, <2>2, <2>4 DEF Plus
  <2>6. /\ IsScanner(listed(f)) /\ listed(f).findings = f.findings \cup errors
        /\ listed(f).crypto = f.crypto
        /\ listed(f).components = add_components({}, path, parsed.components)
        /\ listed(f).requires = f.requires \cup parsed.requires
        /\ listed(f).checksums = f.checksums \cup parsed.checksums
    BY <1>3, <2>4 DEF Plus
  <2> QED
    BY <1>3, <2>1, <2>3, <2>5, <2>6 DEF Plus
<1>4. ASSUME NEW s, NEW f, Plus(old, s, f, path) PROVE Plus(old, searched(s), searched(f), path)
  <2> DEFINE key == \/ "key-header" \in c.marks /\ ~is_documentation_file(path)
                    \/ "key-block" \in c.marks
                    \/ IsKeyFile(path)
             drift == "legacy-crypto" \in c.marks
             kinds == (IF key THEN {"key-material"} ELSE {})
                      \cup (IF drift THEN {"algorithm-or-protocol"} ELSE {})
             findings == (IF key THEN {Finding("private-key-material", "high", path)} ELSE {})
                         \cup (IF drift THEN {Finding("crypto-policy-drift",
                                                     unstructured_text_severity(path), path)}
                               ELSE {})
             crypto == {[kind |-> k, evidence |-> path] : k \in kinds}
  <2>1. (\A e \in findings : e.evidence = path) /\ (\A e \in crypto : e.evidence = path)
    BY DEF Finding
  <2>2. \A z : searched(z) = [Add(z, findings, {}) EXCEPT !.crypto = @ \cup crypto]
    BY DEF scan_crypto_material
  <2> HIDE DEF findings, crypto, searched
  <2>3. Plus(old, Add(s, findings, {}), Add(f, findings, {}), path)
    BY <1>4, <2>1, AddIsPlus
  <2> QED
    BY <2>1, <2>2, <2>3, CryptoIsPlus
<1>5. ASSUME NEW s, NEW f, Plus(old, s, f, path) PROVE Plus(old, suspected(s), suspected(f), path)
  <2> DEFINE severity == IF c.exec \/ path \in recipe.command THEN "high" ELSE "medium"
             findings == {Finding("suspicious-build-behavior", severity, path)}
             candidates == IF severity = "high"
                           THEN {add_vex_candidate("suspicious-build-behavior", path)} ELSE {}
  <2>1. \A e \in findings : e.evidence = path
    BY DEF Finding
  <2>2. \A z : suspected(z) = IF "remote-execution" \notin c.marks THEN z
                             ELSE Add(z, findings, candidates)
    BY DEF scan_suspicious_text
  <2> HIDE DEF findings, candidates, suspected
  <2>3. Plus(old, Add(s, findings, candidates), Add(f, findings, candidates), path)
    BY <1>5, <2>1, AddIsPlus
  <2> QED
    BY <1>5, <2>2, <2>3
<1>6. ASSUME NEW s, NEW f, Plus(old, s, f, path) PROVE Plus(old, aligned(s), aligned(f), path)
  <2> DEFINE findings == {Finding("metadata-misalignment", "medium", path)}
             stale == /\ Last(path) \in {"Dockerfile", "Containerfile"}
                      /\ "from" \in c.marks
                      /\ ~recipe.builder_sha256
  <2>1. \A e \in findings : e.evidence = path
    BY DEF Finding
  <2>2. \A z : aligned(z) = IF stale THEN Add(z, findings, {}) ELSE z
    BY DEF scan_recipe_alignment
  <2> HIDE DEF findings, stale, aligned
  <2>3. Plus(old, Add(s, findings, {}), Add(f, findings, {}), path)
    BY <1>6, <2>1, AddIsPlus
  <2> QED
    BY <1>6, <2>2, <2>3
<1> HIDE DEF policed, listed, searched, suspected, aligned
<1>7. Plus(old, listed(policed(st)), listed(policed(found)), path)
  BY <1>2, <1>3
<1>8. Plus(old, searched(listed(policed(st))), searched(listed(policed(found))), path)
  BY <1>4, <1>7
<1>9. Plus(old, suspected(searched(listed(policed(st)))),
           suspected(searched(listed(policed(found)))), path)
  BY <1>5, <1>8
<1> QED
  BY <1>1, <1>6, <1>9

LEMMA BinaryIsPlus ==
    ASSUME NEW old, NEW st, NEW found, NEW path, NEW c, Plus(old, st, found, path)
    PROVE  Plus(old, inspect_binary(path, c, st), inspect_binary(path, c, found), path)
<1> DEFINE Hint(mark, category) ==
               IF mark \in c.marks THEN {Finding(category, "medium", path)} ELSE {}
           hints == Hint("legacy-crypto", "binary-crypto-policy-drift")
                    \cup Hint("network", "binary-network-capability")
           crypto == IF "legacy-crypto" \in c.marks
                     THEN {[kind |-> "binary-crypto-primitive", evidence |-> path]} ELSE {}
           findings == {Finding("ad-hoc-binary", "high", path)}
           candidates == {add_vex_candidate("ad-hoc-binary", path)}
           analyzed(s) == analyze_binary(path, c, s)
<1>1. /\ \A e \in hints : e.evidence = path
      /\ \A e \in crypto : e.evidence = path
      /\ \A e \in findings : e.evidence = path
  BY DEF Finding
<1>2. \A s : analyzed(s) = [Add(s, hints, {}) EXCEPT !.crypto = @ \cup crypto]
  BY DEF analyze_binary
<1>3. \A s : inspect_binary(path, c, s) = IF ~c.exec THEN analyzed(s)
                                         ELSE Add(analyzed(s), findings, candidates)
  BY DEF inspect_binary
<1> HIDE DEF hints, crypto, findings, candidates, analyzed
<1>4. Plus(old, Add(st, hints, {}), Add(found, hints, {}), path)
  BY <1>1, AddIsPlus
<1>5. Plus(old, analyzed(st), analyzed(found), path)
  BY <1>1, <1>2, <1>4, CryptoIsPlus
<1>6. Plus(old, Add(analyzed(st), findings, candidates),
           Add(analyzed(found), findings, candidates), path)
  BY <1>1, <1>5, AddIsPlus
<1> QED
  BY <1>3, <1>5, <1>6

LEMMA ReadIsPlus ==
    ASSUME NEW st, IsScanner(st), NEW blank, Blank(blank), NEW recipe, NEW path, NEW c
    PROVE  Plus(st, InspectRead(recipe, path, c, st), InspectRead(recipe, path, c, blank), path)
<1> DEFINE digested(s) == [s EXCEPT !.digests = With(@, path, Digested("file", c))]
<1>1. Plus(st, digested(st), digested(blank), path) /\ digested(blank).components = {}
  BY DigestIsPlus
<1>2. \A s : InspectRead(recipe, path, c, s) =
                IF c.binary THEN inspect_binary(path, c, digested(s))
                ELSE InspectText(recipe, path, c, digested(s))
  BY DEF InspectRead
<1> HIDE DEF digested
<1>3. Plus(st, inspect_binary(path, c, digested(st)), inspect_binary(path, c, digested(blank)), path)
  BY <1>1, BinaryIsPlus
<1>4. Plus(st, InspectText(recipe, path, c, digested(st)),
           InspectText(recipe, path, c, digested(blank)), path)
  BY <1>1, TextIsPlus
<1> QED
  BY <1>2, <1>3, <1>4

LEMMA LongIsPlus ==
    ASSUME NEW st, IsScanner(st), NEW blank, Blank(blank), NEW path, NEW exec, NEW binary, NEW c
    PROVE  Plus(st, InspectLong(path, exec, binary, c, st),
                InspectLong(path, exec, binary, c, blank), path)
<1> DEFINE category == IF exec THEN "ad-hoc-binary" ELSE "binary-scan-skipped"
           content == Digested("file", [c EXCEPT !.exec = exec])
           large == {Finding("metadata-file-too-large", "high", path)}
           findings == {Finding(category, "high", path)}
           candidates == {add_vex_candidate(category, path)}
           digested(s) == [s EXCEPT !.digests = With(@, path, content)]
           known(s) == IF is_known_metadata_file(path) THEN Add(digested(s), large, {})
                       ELSE digested(s)
<1>1. Plus(st, digested(st), digested(blank), path)
  BY DigestIsPlus
<1>2. (\A e \in large : e.evidence = path) /\ (\A e \in findings : e.evidence = path)
  BY DEF Finding
<1>3. \A s : InspectLong(path, exec, binary, c, s) =
                IF exec \/ binary THEN Add(known(s), findings, candidates) ELSE known(s)
  BY DEF InspectLong
<1> HIDE DEF large, findings, candidates, digested
<1>4. Plus(st, Add(digested(st), large, {}), Add(digested(blank), large, {}), path)
  BY <1>1, <1>2, AddIsPlus
<1>5. Plus(st, known(st), known(blank), path)
  BY <1>1, <1>4
<1> HIDE DEF known
<1>6. Plus(st, Add(known(st), findings, candidates), Add(known(blank), findings, candidates), path)
  BY <1>2, <1>5, AddIsPlus
<1> QED
  BY <1>3, <1>5, <1>6

-----------------------------------------------------------------------------
(***************************************************************************)
(* The walk has found what is in the files of its inventory, and nothing   *)
(* else, as far as they did not change while they were looked at.          *)
(***************************************************************************)
Found(recipe, t, p) == Inspect(recipe, p, t[p], ScannerState)

IsEntry(d) ==
    /\ d = Digested(d.kind, d.content) /\ d.kind \in {"file", "symlink"}
    /\ d.kind = "file" => IsContent(d.content)

Covers(st, found) ==
    /\ found.findings \subseteq st.findings /\ found.crypto \subseteq st.crypto
    /\ found.requires \subseteq st.requires /\ found.checksums \subseteq st.checksums
    /\ \A c \in found.components : \E d \in st.components : KeyOf(d) = KeyOf(c)

\* Whatever was found was found in some file.
Explained(recipe, st, races) ==
    LET t == st.digests
        Known(p) == p \in DOMAIN t
    IN  /\ \A f \in st.findings :
               \/ f.category = "scan-incomplete"
               \/ f.evidence \in races
               \/ Known(f.evidence) /\ f \in Found(recipe, t, f.evidence).findings
        /\ \A e \in st.crypto :
               \/ e.evidence \in races
               \/ Known(e.evidence) /\ e \in Found(recipe, t, e.evidence).crypto
        /\ \A c \in st.components :
               \/ c.evidence \in races
               \/ Known(c.evidence) /\ c \in Found(recipe, t, c.evidence).components
        /\ \A r \in st.requires : \E p \in DOMAIN t :
               p \in races \/ r \in Found(recipe, t, p).requires
        /\ \A s \in st.checksums : \E p \in DOMAIN t :
               p \in races \/ s \in Found(recipe, t, p).checksums

AddsUp(recipe, st, races) ==
    /\ IsScanner(st)
    /\ st.digests = [p \in DOMAIN st.digests |-> st.digests[p]]
    /\ races \subseteq DOMAIN st.digests
    /\ \A p \in DOMAIN st.digests : IsEntry(st.digests[p])
    /\ \A p \in DOMAIN st.digests \ races : Covers(st, Found(recipe, st.digests, p))
    /\ Explained(recipe, st, races)

LEMMA StartAddsUp == ASSUME NEW recipe PROVE AddsUp(recipe, ScannerState, {})
BY DEF AddsUp, ScannerState, IsScanner, Explained

\* A symlink or a file joins the inventory.
LEMMA StillAddsUp ==
    ASSUME NEW recipe, NEW st, NEW races, AddsUp(recipe, st, races),
           NEW p, p \notin DOMAIN st.digests, NEW d, IsEntry(d),
           NEW new, new.digests = With(st.digests, p, d),
           NEW found, Plus(st, new, found, p),
           NEW more, more \in {races, races \cup {p}},
           p \in more \/ found = Inspect(recipe, p, d, ScannerState)
    PROVE  AddsUp(recipe, new, more)
<1> DEFINE t == st.digests
           u == new.digests
<1>1. /\ DOMAIN u = DOMAIN t \cup {p} /\ u[p] = d
      /\ \A q \in DOMAIN t : q # p /\ u[q] = t[q]
  BY DEF With
<1>2. /\ \A q \in DOMAIN t : Found(recipe, u, q) = Found(recipe, t, q)
      /\ p \in more \/ found = Found(recipe, u, p)
  BY <1>1 DEF Found
<1>3. /\ races \subseteq more /\ more \subseteq DOMAIN u
      /\ \A q \in DOMAIN t : q \in more => q \in races
  BY <1>1 DEF AddsUp
<1> HIDE DEF t, u
<1>4. \A q \in DOMAIN u : IsEntry(u[q])
  BY <1>1 DEF AddsUp, t
<1>5. Covers(new, found)
  BY DEF Plus, Merges, Covers
<1>6. ASSUME NEW q \in DOMAIN u \ more PROVE Covers(new, Found(recipe, u, q))
  <2>1. CASE q = p
    BY <1>2, <1>5, <1>6, <2>1
  <2>2. CASE q # p
    <3>1. Covers(st, Found(recipe, u, q))
      BY <1>1, <1>2, <1>3, <1>6, <2>2 DEF AddsUp, t
    <3> QED
      BY <3>1 DEF Covers, Plus, Merges
  <2> QED
    BY <2>1, <2>2
<1>7. ASSUME NEW f \in new.findings
      PROVE  \/ f.category = "scan-incomplete"
             \/ f.evidence \in more
             \/ f.evidence \in DOMAIN u /\ f \in Found(recipe, u, f.evidence).findings
  <2>1. CASE f \in st.findings
    BY <1>1, <1>2, <1>3, <2>1 DEF AddsUp, Explained, t
  <2>2. CASE f \in found.findings
    BY <1>1, <1>2, <2>2 DEF Plus
  <2> QED
    BY <2>1, <2>2 DEF Plus
<1>8. ASSUME NEW e \in new.crypto
      PROVE  \/ e.evidence \in more
             \/ e.evidence \in DOMAIN u /\ e \in Found(recipe, u, e.evidence).crypto
  <2>1. CASE e \in st.crypto
    BY <1>1, <1>2, <1>3, <2>1 DEF AddsUp, Explained, t
  <2>2. CASE e \in found.crypto
    BY <1>1, <1>2, <2>2 DEF Plus
  <2> QED
    BY <2>1, <2>2 DEF Plus
<1>9. ASSUME NEW c \in new.components
      PROVE  \/ c.evidence \in more
             \/ c.evidence \in DOMAIN u /\ c \in Found(recipe, u, c.evidence).components
  <2>1. CASE c \in st.components
    BY <1>1, <1>2, <1>3, <2>1 DEF AddsUp, Explained, t
  <2>2. CASE c \in found.components
    BY <1>1, <1>2, <2>2 DEF Plus
  <2> QED
    BY <2>1, <2>2 DEF Plus, Merges
<1>10. \A r \in new.requires : \E q \in DOMAIN u :
           q \in more \/ r \in Found(recipe, u, q).requires
  BY <1>1, <1>2, <1>3 DEF AddsUp, Explained, Plus, t
<1>11. \A s \in new.checksums : \E q \in DOMAIN u :
           q \in more \/ s \in Found(recipe, u, q).checksums
  BY <1>1, <1>2, <1>3 DEF AddsUp, Explained, Plus, t
<1>12. Explained(recipe, new, more)
  BY <1>7, <1>8, <1>9, <1>10, <1>11 DEF Explained, u
<1>13. u = [q \in DOMAIN u |-> u[q]]
  BY DEF With, u
<1> QED
  BY <1>3, <1>4, <1>6, <1>12, <1>13 DEF AddsUp, Plus, u

\* A file that did not change is judged as it will be if it is looked at again.
LEMMA ReadIsFound ==
    ASSUME NEW recipe, NEW p, NEW c, ~c.long
    PROVE  InspectRead(recipe, p, c, [ScannerState EXCEPT !.files_scanned = @ + 1])
           = Inspect(recipe, p, Digested("file", c), ScannerState)
BY DEF Inspect, Digested

LEMMA LongIsFound ==
    ASSUME NEW recipe, NEW p, NEW c, c.long
    PROVE  InspectLong(p, c.exec, c.binary, c, [ScannerState EXCEPT !.files_scanned = @ + 1])
           = Inspect(recipe, p, Digested("file", c), ScannerState)
BY DEF Inspect, Digested

LEMMA StepAddsUp ==
    ASSUME WalkInv, NEW recipe, WalkStep(recipe), AddsUp(recipe, scanner, raced)
    PROVE  AddsUp(recipe, scanner', raced')
<1>1. PICK p : \/ LimitReached(p) \/ MeetSymlink(p) \/ Stat(p) \/ Unlisted(p)
               \/ ReadFile(recipe, p) \/ ReadPrefix \/ DigestWhole(p)
  BY DEF WalkStep
<1> DEFINE start == [ScannerState EXCEPT !.files_scanned = @ + 1]
<1>2. /\ IsScanner(Met) /\ Met.digests = scanner.digests
      /\ Met.findings = scanner.findings /\ Met.crypto = scanner.crypto
      /\ Met.components = scanner.components
      /\ Met.requires = scanner.requires /\ Met.checksums = scanner.checksums
  BY DEF AddsUp, IsScanner, Met
<1>3. Blank(start)
  BY StartIsBlank
<1>4. CASE LimitReached(p)
  <2> DEFINE findings == {Finding("scan-incomplete", "high", None)}
  <2>1. \A f \in findings : f.category = "scan-incomplete"
    BY DEF Finding
  <2>2. scanner' = Add(Met, findings, {}) /\ raced' = raced
    BY <1>4 DEF LimitReached
  <2> HIDE DEF findings
  <2>3. /\ IsScanner(scanner') /\ scanner'.digests = scanner.digests
        /\ scanner'.findings = scanner.findings \cup findings
        /\ scanner'.crypto = scanner.crypto /\ scanner'.components = scanner.components
        /\ scanner'.requires = scanner.requires /\ scanner'.checksums = scanner.checksums
    BY <1>2, <2>2 DEF IsScanner, Add
  <2>4. Explained(recipe, scanner', raced)
    BY <2>1, <2>3 DEF AddsUp, Explained
  <2>5. \A found : Covers(scanner, found) => Covers(scanner', found)
    BY <2>3 DEF Covers
  <2> QED
    BY <2>2, <2>3, <2>4, <2>5 DEF AddsUp
<1>5. CASE Stat(p)
  <2>1. scanner' = Met /\ raced' = raced
    BY <1>5 DEF Stat
  <2>2. Explained(recipe, Met, raced)
    BY <1>2 DEF AddsUp, Explained
  <2>3. \A found : Covers(scanner, found) => Covers(Met, found)
    BY <1>2 DEF Covers
  <2> QED
    BY <1>2, <2>1, <2>2, <2>3 DEF AddsUp
<1>6. CASE Unlisted(p) \/ ReadPrefix
  BY <1>6 DEF Unlisted, ReadPrefix
<1>7. CASE MeetSymlink(p)
  <2> DEFINE node == Digested("symlink", tree[p].content)
             found == [start EXCEPT !.digests = With(@, p, node)]
  <2>1. /\ scanner' = [Met EXCEPT !.digests = With(@, p, node)] /\ raced' = raced
        /\ p \notin DOMAIN scanner.digests
    BY <1>7 DEF MeetSymlink, MayMeet
  <2>2. IsEntry(node) /\ node.kind = "symlink" /\ node.content = tree[p].content
    BY DEF IsEntry, Digested
  <2>3. found = Inspect(recipe, p, node, ScannerState)
    BY <2>2 DEF Inspect
  <2> HIDE DEF node, start
  <2>4. Plus(Met, scanner', found, p)
    BY <1>2, <1>3, <2>1, DigestIsPlus
  <2>5. scanner'.digests = With(scanner.digests, p, node)
    BY <1>2, <2>1 DEF IsScanner
  <2> HIDE DEF found
  <2>6. Plus(scanner, scanner', found, p)
    BY <1>2, <2>4 DEF Plus
  <2> QED
    BY <2>1, <2>2, <2>3, <2>5, <2>6, StillAddsUp
<1>8. CASE ReadFile(recipe, p)
  <2> DEFINE c == Current(p)
             node == Digested("file", c)
             found == InspectRead(recipe, p, c, start)
  <2>1. /\ Visiting(p) /\ scanner' = InspectRead(recipe, p, c, scanner)
        /\ raced' = IF c.long THEN raced \cup {p} ELSE raced
    BY <1>8 DEF ReadFile
  <2>2. p \notin DOMAIN scanner.digests
    BY <2>1 DEF Visiting, WalkInv, VettingInv, VisitInv
  <2>3. IsEntry(node)
    BY <2>1, CurrentIsContent DEF IsEntry, Digested
  <2>4. scanner'.digests = With(scanner.digests, p, node)
    BY <2>1, ReadIsSound DEF WalkInv
  <2>5. Plus(scanner, scanner', found, p)
    BY <1>3, <2>1, ReadIsPlus DEF AddsUp
  <2>6. c.long \/ found = Inspect(recipe, p, node, ScannerState)
    BY ReadIsFound
  <2> HIDE DEF c, node, found
  <2>7. raced' \in {raced, raced \cup {p}} /\ (c.long => p \in raced')
    BY <2>1
  <2> QED
    BY <2>2, <2>3, <2>4, <2>5, <2>6, <2>7, StillAddsUp
<1>9. CASE DigestWhole(p)
  <2> DEFINE c == Current(p)
             node == Digested("file", c)
             found == InspectLong(p, visiting.stat.exec, visiting.prefix.binary, c, start)
             Steady == \A read \in {visiting.prefix, visiting.stat} : SameBytes(c, read)
  <2>1. /\ Visiting(p)
        /\ scanner' = InspectLong(p, visiting.stat.exec, visiting.prefix.binary, c, scanner)
        /\ raced' = IF Steady THEN raced ELSE raced \cup {p}
        /\ visiting.prefix # None /\ visiting.stat.long
    BY <1>9 DEF DigestWhole
  <2>2. /\ IsContent(c) /\ c.exec = visiting.stat.exec
        /\ [c EXCEPT !.exec = visiting.stat.exec] = c
    BY <2>1, CurrentIsContent
  <2>3. /\ p \notin DOMAIN scanner.digests
        /\ IsContent(visiting.stat) /\ IsContent(visiting.prefix)
    BY <2>1 DEF Visiting, WalkInv, VettingInv, VisitInv
  <2>4. IsEntry(node)
    BY <2>2 DEF IsEntry, Digested
  <2> HIDE DEF c
  <2>5. scanner'.digests = With(scanner.digests, p, node)
    BY <2>1, <2>2, LongIsSound DEF WalkInv
  <2>6. Plus(scanner, scanner', found, p)
    BY <1>3, <2>1, LongIsPlus DEF AddsUp
  <2>7. \A read : IsContent(read) /\ SameBytes(c, read) => c.long = read.long /\ c.binary = read.binary
    BY <2>2 DEF SameBytes, IsContent
  <2>8. Steady => c.long /\ c.binary = visiting.prefix.binary
    BY <2>1, <2>3, <2>7
  <2>9. c.long => InspectLong(p, c.exec, c.binary, c, start) = Inspect(recipe, p, node, ScannerState)
    BY LongIsFound
  <2>10. Steady => found = Inspect(recipe, p, node, ScannerState)
    BY <2>2, <2>8, <2>9
  <2> HIDE DEF node, found, Steady
  <2>11. raced' \in {raced, raced \cup {p}} /\ (~Steady => p \in raced')
    BY <2>1
  <2> QED
    BY <2>3, <2>4, <2>5, <2>6, <2>10, <2>11, StillAddsUp
<1> QED
  BY <1>1, <1>4, <1>5, <1>6, <1>7, <1>8, <1>9

\* A walk that is over has come to what another scan of its inventory comes to.
Unmatched(findings) == {f \in findings : f.category # Osv}

IsOfItsDigest(recipe, scanned, races, verify) ==
    LET settled == DOMAIN scanned.digests \ races
        again == InspectFiles(recipe, scanned.digests, settled)
        compared == compare_recipe_metadata(recipe, again, verify)
        Settled(entries) == {e \in entries : e.evidence \in settled}
        Keys(components) == {KeyOf(c) : c \in components}
        found == Unmatched(scanned.findings)
    IN  /\ Keys(Settled(scanned.components)) \subseteq Keys(again.components)
        /\ Keys(again.components) \subseteq Keys(scanned.components)
        /\ Settled(scanned.crypto) = again.crypto
        /\ again.findings \subseteq found
        /\ \A f \in Settled(found) \ again.findings : OfComparison(f)
        /\ races = {} => Weighty(found) = Weighty(compared.findings)

\* What compare_recipe_metadata adds.
Missing(st) ==
    {add_sbom_policy_finding(<<"sbom-missing-integrity", r[1]>>, <<"go.sum">>).finding :
        r \in st.requires \ st.checksums}

MisalignedIn(recipe, st, verify) ==
    IF verify
    THEN {Finding("metadata-misalignment", IF material_is_file(m) THEN "high" ELSE "low", m.name) :
             m \in {m \in recipe.materials : Misaligned(m, st)}}
    ELSE {}

LEMMA AddAdds ==
    ASSUME NEW st, IsScanner(st), NEW findings, NEW candidates
    PROVE  LET new == Add(st, findings, candidates)
           IN  /\ IsScanner(new) /\ new.findings = st.findings \cup findings
               /\ new.digests = st.digests /\ new.components = st.components
               /\ new.crypto = st.crypto
BY DEF IsScanner, Add

LEMMA ComparedAdds ==
    ASSUME NEW recipe, NEW st, IsScanner(st), NEW verify
    PROVE  LET compared == compare_recipe_metadata(recipe, st, verify)
           IN  /\ compared.findings = st.findings \cup Missing(st) \cup MisalignedIn(recipe, st, verify)
               /\ compared.digests = st.digests /\ compared.components = st.components
               /\ compared.crypto = st.crypto
               /\ \A f \in Missing(st) \cup MisalignedIn(recipe, st, verify) :
                      OfComparison(f) /\ f.category # Osv
<1> DEFINE missing == {<<"sbom-missing-integrity", r[1]>> : r \in st.requires \ st.checksums}
           added == {add_sbom_policy_finding(policy, <<"go.sum">>) : policy \in missing}
           findings == {a.finding : a \in added}
           candidates == {a.candidate : a \in added}
           misaligned == MisalignedIn(recipe, st, verify)
<1>1. compare_recipe_metadata(recipe, st, verify) = Add(Add(st, findings, candidates), misaligned, {})
  BY DEF compare_recipe_metadata, AddPolicies, MisalignedIn
<1>2. findings = Missing(st)
  BY DEF Missing
<1>3. \A f \in Missing(st) : OfComparison(f) /\ f.category # Osv
  BY DEF Missing, add_sbom_policy_finding, Finding, OfComparison, Osv
<1>4. \A f \in misaligned : OfComparison(f) /\ f.category # Osv
  BY DEF MisalignedIn, Finding, OfComparison, Osv
<1> HIDE DEF findings, candidates, misaligned
<1> DEFINE checked == Add(st, findings, candidates)
<1>6. /\ IsScanner(checked) /\ checked.findings = st.findings \cup findings
      /\ checked.digests = st.digests /\ checked.components = st.components
      /\ checked.crypto = st.crypto
  BY AddAdds
<1> HIDE DEF checked
<1>7. /\ Add(checked, misaligned, {}).findings = checked.findings \cup misaligned
      /\ Add(checked, misaligned, {}).digests = checked.digests
      /\ Add(checked, misaligned, {}).components = checked.components
      /\ Add(checked, misaligned, {}).crypto = checked.crypto
  BY <1>6, AddAdds
<1> QED
  BY <1>1, <1>2, <1>3, <1>4, <1>6, <1>7 DEF checked, misaligned

\* What two scans compare alike.
LEMMA WeightyIsOfDigests ==
    ASSUME NEW recipe, NEW verify, NEW st, NEW again, again.digests = st.digests
    PROVE  Weighty(MisalignedIn(recipe, st, verify)) = Weighty(MisalignedIn(recipe, again, verify))
<1> DEFINE Of(s) == {m \in recipe.materials : material_is_file(m) /\ Misaligned(m, s)}
           High(s) == {Finding("metadata-misalignment", "high", m.name) : m \in Of(s)}
<1>1. \A m : material_is_file(m) => (Misaligned(m, st) <=> Misaligned(m, again))
  BY DEF Misaligned, ObservedMaterial
<1>2. Of(st) = Of(again)
  BY <1>1
<1>3. \A s : verify => Weighty(MisalignedIn(recipe, s, verify)) = High(s)
  <2> SUFFICES ASSUME verify, NEW s PROVE Weighty(MisalignedIn(recipe, s, verify)) = High(s)
    OBVIOUS
  <2> DEFINE all == MisalignedIn(recipe, s, verify)
  <2>1. all = {Finding("metadata-misalignment", IF material_is_file(m) THEN "high" ELSE "low", m.name) :
                  m \in {m \in recipe.materials : Misaligned(m, s)}}
    BY DEF MisalignedIn
  <2>2. \A severity, evidence :
           LET f == Finding("metadata-misalignment", severity, evidence)
           IN  f.category = "metadata-misalignment" /\ f.severity = severity
    BY DEF Finding
  <2>3. ASSUME NEW f \in Weighty(all) PROVE f \in High(s)
    <3>1. f \in all /\ ~(f.category = "metadata-misalignment" /\ f.severity = "low")
      BY DEF Weighty
    <3>2. PICK m \in recipe.materials :
             /\ Misaligned(m, s)
             /\ f = Finding("metadata-misalignment", IF material_is_file(m) THEN "high" ELSE "low",
                            m.name)
      BY <2>1, <3>1
    <3>3. material_is_file(m)
      BY <2>2, <3>1, <3>2
    <3> QED
      BY <3>2, <3>3
  <2>4. ASSUME NEW f \in High(s) PROVE f \in Weighty(all)
    <3>1. PICK m \in Of(s) : f = Finding("metadata-misalignment", "high", m.name)
      OBVIOUS
    <3>2. f \in all
      BY <2>1, <3>1
    <3> QED
      BY <2>2, <3>1, <3>2 DEF Weighty
  <2> QED
    BY <2>3, <2>4
<1>4. High(st) = High(again)
  BY <1>2
<1>5. ~verify => \A s : MisalignedIn(recipe, s, verify) = {}
  BY DEF MisalignedIn
<1> HIDE DEF High
<1> QED
  BY <1>3, <1>4, <1>5

LEMMA FoundIsOfItsFile ==
    ASSUME NEW recipe, NEW t, NEW p
    PROVE  /\ IsScanner(Found(recipe, t, p))
           /\ \A e \in Found(recipe, t, p).crypto : e.evidence = p
<1> DEFINE c == t[p].content
           start == [ScannerState EXCEPT !.files_scanned = @ + 1]
           symlink == [start EXCEPT !.digests = With(@, p, Digested("symlink", c))]
           long == InspectLong(p, c.exec, c.binary, c, start)
           read == InspectRead(recipe, p, c, start)
<1>1. Found(recipe, t, p) = IF t[p].kind = "symlink" THEN symlink ELSE IF c.long THEN long ELSE read
  BY DEF Found, Inspect
<1>2. Blank(start)
  BY StartIsBlank
<1> HIDE DEF start
<1>3. IsScanner(symlink) /\ symlink.crypto = {}
  BY <1>2 DEF Blank, IsScanner
<1>4. Plus(start, long, long, p) /\ Plus(start, read, read, p)
  BY <1>2, LongIsPlus, ReadIsPlus DEF Blank
<1> QED
  BY <1>1, <1>3, <1>4 DEF Plus

\* A scan of an inventory digests what is in it.
LEMMA DigestIsAgain ==
    ASSUME NEW recipe, NEW t, t = [p \in DOMAIN t |-> t[p]], \A p \in DOMAIN t : IsEntry(t[p])
    PROVE  t = [p \in DOMAIN t |-> Found(recipe, t, p).digests[p]]
<1> SUFFICES ASSUME NEW p \in DOMAIN t PROVE Found(recipe, t, p).digests[p] = t[p]
  OBVIOUS
<1> DEFINE c == t[p].content
           start == [ScannerState EXCEPT !.files_scanned = @ + 1]
           symlink == [start EXCEPT !.digests = With(@, p, Digested("symlink", c))]
           long == InspectLong(p, c.exec, c.binary, c, start)
           read == InspectRead(recipe, p, c, start)
<1>1. Found(recipe, t, p) = IF t[p].kind = "symlink" THEN symlink ELSE IF c.long THEN long ELSE read
  BY DEF Found, Inspect
<1>2. Sound(start)
  BY StartIsSound, CountIsSound
<1> HIDE DEF start
<1>3. symlink.digests = With(start.digests, p, Digested("symlink", c))
  BY <1>2 DEF Sound, IsScanner
<1>4. /\ long.digests = With(start.digests, p, Digested("file", [c EXCEPT !.exec = c.exec]))
      /\ read.digests = With(start.digests, p, Digested("file", c))
  BY <1>2, LongIsSound, ReadIsSound
<1>5. t[p].kind = "file" => [c EXCEPT !.exec = c.exec] = c
  BY DEF IsEntry, IsContent
<1>6. \A y : With(start.digests, p, y)[p] = y
  BY DEF With
<1> HIDE DEF symlink, long, read
<1>7. CASE t[p].kind = "symlink"
  BY <1>1, <1>3, <1>6, <1>7 DEF IsEntry
<1>8. CASE t[p].kind = "file"
  BY <1>1, <1>4, <1>5, <1>6, <1>8 DEF IsEntry
<1> QED
  BY <1>7, <1>8 DEF IsEntry

LEMMA OverIsOfItsDigest ==
    ASSUME NEW recipe, NEW st, NEW races, AddsUp(recipe, st, races), NEW verify,
           \A f \in st.findings : f.category \notin {"scan-incomplete", Osv}
    PROVE  IsOfItsDigest(recipe, compare_recipe_metadata(recipe, st, verify), races, verify)
<1> DEFINE t == st.digests
           settled == DOMAIN t \ races
           again == InspectFiles(recipe, t, settled)
           scanned == compare_recipe_metadata(recipe, st, verify)
           compared == compare_recipe_metadata(recipe, again, verify)
           Settled(entries) == {e \in entries : e.evidence \in settled}
           Keys(components) == {KeyOf(c) : c \in components}
           components == UNION {Found(recipe, t, p).components : p \in settled}
<1>1. /\ IsScanner(st) /\ t = [p \in DOMAIN t |-> t[p]]
      /\ \A p \in DOMAIN t : IsEntry(t[p])
      /\ \A p \in settled : Covers(st, Found(recipe, t, p))
      /\ Explained(recipe, st, races)
  BY DEF AddsUp
<1>2. \A f \in st.findings :
          f.evidence \in settled => f \in Found(recipe, t, f.evidence).findings
  BY <1>1 DEF Explained
<1>3. \A e \in st.crypto : e.evidence \in settled => e \in Found(recipe, t, e.evidence).crypto
  BY <1>1 DEF Explained
<1>4. \A c \in st.components :
          c.evidence \in settled => c \in Found(recipe, t, c.evidence).components
  BY <1>1 DEF Explained
<1>5. \A f \in st.findings : f.evidence \in DOMAIN t \/ f.evidence \in races
  BY <1>1 DEF Explained
<1>6. /\ \A e \in st.requires : \E p \in DOMAIN t : p \in races \/ e \in Found(recipe, t, p).requires
      /\ \A e \in st.checksums : \E p \in DOMAIN t : p \in races \/ e \in Found(recipe, t, p).checksums
  BY <1>1 DEF Explained
<1>7. /\ IsScanner(again) /\ again.digests = [p \in settled |-> Found(recipe, t, p).digests[p]]
      /\ again.findings = UNION {Found(recipe, t, p).findings : p \in settled}
      /\ again.crypto = UNION {Found(recipe, t, p).crypto : p \in settled}
      /\ again.requires = UNION {Found(recipe, t, p).requires : p \in settled}
      /\ again.checksums = UNION {Found(recipe, t, p).checksums : p \in settled}
      /\ again.components = {CHOOSE c \in components : KeyOf(c) = key :
             key \in UNION {Keys(Found(recipe, t, p).components) : p \in settled}}
  BY DEF InspectFiles, IsScanner, Found
<1> HIDE DEF again
<1>8. Keys(again.components) = UNION {Keys(Found(recipe, t, p).components) : p \in settled}
  <2> DEFINE keys == UNION {Keys(Found(recipe, t, p).components) : p \in settled}
  <2>1. \A key \in keys : \E c \in components : KeyOf(c) = key
    OBVIOUS
  <2> DEFINE Chosen(key) == CHOOSE c \in components : KeyOf(c) = key
  <2> HIDE DEF components
  <2>2. ASSUME NEW key \in keys PROVE KeyOf(Chosen(key)) = key
    <3>1. \E c \in components : KeyOf(c) = key
      BY <2>1
    <3> QED
      BY <3>1
  <2>3. again.components = {Chosen(key) : key \in keys}
    BY <1>7
  <2> HIDE DEF keys, Chosen
  <2>4. Keys(again.components) = keys
    BY <2>2, <2>3
  <2> QED
    BY <2>4 DEF keys
<1> HIDE DEF components
<1>9. /\ scanned.findings = st.findings \cup Missing(st) \cup MisalignedIn(recipe, st, verify)
      /\ scanned.digests = t /\ scanned.components = st.components /\ scanned.crypto = st.crypto
      /\ \A f \in Missing(st) \cup MisalignedIn(recipe, st, verify) :
             OfComparison(f) /\ f.category # Osv
  <2>1. IsScanner(st)
    BY <1>1
  <2>2. scanned.findings = st.findings \cup Missing(st) \cup MisalignedIn(recipe, st, verify)
    BY <2>1, ComparedAdds
  <2>3. /\ scanned.digests = st.digests /\ scanned.components = st.components
        /\ scanned.crypto = st.crypto
    BY <2>1, ComparedAdds
  <2>4. \A f \in Missing(st) \cup MisalignedIn(recipe, st, verify) :
           OfComparison(f) /\ f.category # Osv
    BY <2>1, ComparedAdds
  <2> QED
    BY <2>2, <2>3, <2>4
<1>10. /\ compared.findings = again.findings \cup Missing(again) \cup MisalignedIn(recipe, again, verify)
      /\ \A f \in Missing(again) \cup MisalignedIn(recipe, again, verify) : f.category # Osv
  <2>1. IsScanner(again)
    BY <1>7
  <2>2. compared.findings = again.findings \cup Missing(again) \cup MisalignedIn(recipe, again, verify)
    BY <2>1, ComparedAdds
  <2>3. \A f \in Missing(again) \cup MisalignedIn(recipe, again, verify) :
           OfComparison(f) /\ f.category # Osv
    BY <2>1, ComparedAdds
  <2> QED
    BY <2>2, <2>3
<1> HIDE DEF scanned, compared
<1>11. Unmatched(scanned.findings) = scanned.findings
  BY <1>9 DEF Unmatched
<1>12. again.findings \subseteq st.findings /\ again.crypto \subseteq st.crypto
      /\ again.requires \subseteq st.requires /\ again.checksums \subseteq st.checksums
  BY <1>1, <1>7 DEF Covers
<1>13. Keys(again.components) \subseteq Keys(st.components)
  <2> SUFFICES ASSUME NEW p \in settled, NEW c \in Found(recipe, t, p).components
               PROVE  KeyOf(c) \in Keys(st.components)
    BY <1>8
  <2>1. PICK d \in st.components : KeyOf(d) = KeyOf(c)
    BY <1>1 DEF Covers
  <2> QED
    BY <2>1
<1>14. Keys(Settled(st.components)) \subseteq Keys(again.components)
  <2> SUFFICES ASSUME NEW c \in st.components, c.evidence \in settled
               PROVE  KeyOf(c) \in Keys(again.components)
    OBVIOUS
  <2>1. c \in Found(recipe, t, c.evidence).components
    BY <1>4
  <2> QED
    BY <1>8, <2>1
<1>15. Settled(st.crypto) \subseteq again.crypto
  <2> SUFFICES ASSUME NEW e \in st.crypto, e.evidence \in settled PROVE e \in again.crypto
    OBVIOUS
  <2>1. e \in Found(recipe, t, e.evidence).crypto
    BY <1>3
  <2> QED
    BY <1>7, <2>1
<1>16. again.crypto \subseteq Settled(st.crypto)
  <2> SUFFICES ASSUME NEW p \in settled, NEW e \in Found(recipe, t, p).crypto
               PROVE  e.evidence \in settled
    BY <1>7, <1>12
  <2> QED
    BY FoundIsOfItsFile
<1>17. ASSUME NEW f \in st.findings, f.evidence \in settled PROVE f \in again.findings
  <2>1. f \in Found(recipe, t, f.evidence).findings
    BY <1>17, <1>2
  <2> QED
    BY <1>7, <1>17, <2>1
<1>18. \A f \in Settled(scanned.findings) \ again.findings : OfComparison(f)
  BY <1>9, <1>17
<1>19. ASSUME races = {} PROVE Weighty(scanned.findings) = Weighty(compared.findings)
  <2>1. again.digests = t
    BY <1>1, <1>7, <1>19, DigestIsAgain
  <2>2. st.findings \subseteq again.findings
    BY <1>7, <1>19, <1>2, <1>5
  <2>3. again.requires = st.requires /\ again.checksums = st.checksums
    <3>1. st.requires \subseteq again.requires
      BY <1>7, <1>19, <1>6
    <3>2. st.checksums \subseteq again.checksums
      BY <1>7, <1>19, <1>6
    <3> QED
      BY <1>12, <3>1, <3>2
  <2>4. again.findings = st.findings /\ Missing(again) = Missing(st)
    BY <1>12, <2>2, <2>3 DEF Missing
  <2>5. Weighty(MisalignedIn(recipe, st, verify)) = Weighty(MisalignedIn(recipe, again, verify))
    BY <2>1, WeightyIsOfDigests
  <2> QED
    BY <1>9, <1>10, <2>4, <2>5 DEF Weighty
<1> QED
  BY <1>9, <1>11, <1>12, <1>13, <1>14, <1>15, <1>16, <1>18, <1>19
  DEF IsOfItsDigest, again, scanned, compared

ScannedNow == compare_recipe_metadata(request.recipe, scanner, VerifiesMaterials)

DigestInv ==
    /\ pc \in {"walk", "source"} => AddsUp(request.recipe, scanner, raced)
    /\ pc = "source" =>
           /\ report.filesystem = ScannedNow.digests /\ report.raced = raced
           /\ report.components = ScannedNow.components /\ report.crypto = ScannedNow.crypto
           /\ Unmatched(report.findings) = Unmatched(ScannedNow.findings)

LEMMA DigestRests ==
    ASSUME DigestInv, UNCHANGED <<request, scanner, raced, report>>, pc' = pc
    PROVE  DigestInv'
BY DEF DigestInv, ScannedNow, VerifiesMaterials

LEMMA DigestIsKept ==
    ASSUME IInv, DigestInv, [Next]_vars
    PROVE  DigestInv'
<1>1. CASE \/ \E q \in Requests : BeginScan(q)
           \/ WalkFails \/ Recheck \/ Unpack \/ UnpackFails \/ Answer \/ Assess \/ Intake
           \/ LookupDisabled \/ NothingToLookUp \/ FinishLookup
  <2>1. pc' \notin {"walk", "source"}
    BY <1>1 DEF BeginScan, WalkFails, Recheck, Unpack, UnpackFails, Answer, Assess, Intake,
       LookupDisabled, NothingToLookUp, FinishLookup, LookupEnds, InLookup
  <2> QED
    BY <2>1 DEF DigestInv
<1>2. CASE \E q \in Requests : Begin(q)
  BY <1>2, StartAddsUp DEF Begin, StartWalk, DigestInv
<1>3. CASE Walk
  <2>1. /\ WalkStep(request.recipe) /\ pc' = pc /\ pc \in {"walk", "rewalk"} /\ request' = request
    BY <1>3 DEF Walk, Walking
  <2>2. pc = "walk" => AddsUp(request.recipe, scanner', raced')
    BY <2>1, StepAddsUp DEF IInv, DigestInv
  <2> QED
    BY <2>1, <2>2 DEF DigestInv
<1>4. CASE Edit
  <2>1. UNCHANGED <<pc, request, report, scanner, raced>>
    BY <1>4 DEF Edit, EditTree
  <2> QED
    BY <2>1, DigestRests
<1>5. CASE FinishWalk
  <2>1. /\ pc = "walk" /\ UNCHANGED <<request, scanner, raced>>
        /\ report' = [Report(ScannedNow, request.recipe, {}) EXCEPT !.raced = raced]
    BY <1>5 DEF FinishWalk, walkVars, scanVars, ScannedNow
  <2>2. ScannedNow' = ScannedNow
    BY <2>1 DEF ScannedNow, VerifiesMaterials
  <2>3. /\ report'.filesystem = ScannedNow.digests /\ report'.raced = raced
        /\ report'.components = ScannedNow.components /\ report'.crypto = ScannedNow.crypto
        /\ report'.findings = ScannedNow.findings
    BY <2>1 DEF Report, NoReport
  <2> QED
    BY <2>1, <2>2, <2>3 DEF DigestInv
<1>6. CASE ChunkFails \/ UNCHANGED vars
  <2>1. UNCHANGED <<pc, request, report, scanner, raced>>
    BY <1>6 DEF ChunkFails, vars, walkVars, scanVars
  <2> QED
    BY <2>1, DigestRests
<1>7. CASE \E advisories \in SUBSET Advisories : ChunkAnswered(advisories)
  <2>1. PICK advisories : ChunkAnswered(advisories)
    BY <1>7
  <2> DEFINE answers == {FindingOf(m[1], m[2]) : m \in Matched(Chunk, advisories)}
  <2>2. UNCHANGED <<pc, request, scanner, raced>> /\ pc \in {"source", "layer"}
    BY <2>1 DEF ChunkAnswered, walkVars, scanVars, Sending, InLookup
  <2>3. CASE pc = "layer"
    BY <2>2, <2>3 DEF DigestInv
  <2>4. CASE pc = "source"
    <3>1. ReportOK(report)
      BY <2>4 DEF IInv, ReportInv
    <3>2. /\ report'.filesystem = report.filesystem /\ report'.raced = report.raced
          /\ report'.components = report.components /\ report'.crypto = report.crypto
          /\ report'.findings = report.findings \cup answers
      BY <2>1, <3>1 DEF ChunkAnswered, ReportOK, IsReport
    <3>3. \A f \in answers : f.category = Osv
      BY DEF FindingOf, Finding, Osv
    <3> HIDE DEF answers
    <3>4. Unmatched(report'.findings) = Unmatched(report.findings)
      BY <3>2, <3>3 DEF Unmatched
    <3>5. ScannedNow' = ScannedNow
      BY <2>2 DEF ScannedNow, VerifiesMaterials
    <3> QED
      BY <2>2, <3>2, <3>4, <3>5 DEF DigestInv
  <2> QED
    BY <2>2, <2>3, <2>4
<1> QED
  BY <1>1, <1>2, <1>3, <1>4, <1>5, <1>6, <1>7 DEF Next

LEMMA DigestIsInvariant == Spec => []DigestInv
<1>1. Init => DigestInv
  BY DEF Init, DigestInv
<1>2. IInv /\ DigestInv /\ [Next]_vars => DigestInv'
  BY DigestIsKept
<1> QED
  BY Invariance, <1>1, <1>2, PTL DEF Spec

\* A complete scan of a tree that is edited meanwhile judges the bytes its filesystem digest
\* covers: another scan of them comes to the same (scan_file, compare_recipe_metadata).
THEOREM ScanJudgesWhatItDigests == Spec => []ScanIsOfItsDigest
<1>1. ASSUME IInv, DigestInv PROVE ScanIsOfItsDigest
  <2> SUFFICES ASSUME pc = "source", ~Incomplete PROVE ScanIsOfItsDigest
    BY DEF ScanIsOfItsDigest
  <2>1. /\ AddsUp(request.recipe, scanner, raced)
        /\ report.filesystem = ScannedNow.digests /\ report.raced = raced
        /\ report.components = ScannedNow.components /\ report.crypto = ScannedNow.crypto
        /\ Unmatched(report.findings) = Unmatched(ScannedNow.findings)
    BY <1>1 DEF DigestInv
  <2>2. \A f \in scanner.findings : f.category \notin {"scan-incomplete", Osv}
    BY <1>1 DEF IInv, WalkInv, Sound, Incomplete
  <2>3. IsOfItsDigest(request.recipe, ScannedNow, raced, VerifiesMaterials)
    BY <2>1, <2>2, OverIsOfItsDigest DEF ScannedNow
  <2>4. {f \in report.findings : f.category # "known-vulnerability"} = Unmatched(ScannedNow.findings)
    BY <2>1 DEF Unmatched, Osv
  <2> QED
    BY <2>1, <2>3, <2>4 DEF ScanIsOfItsDigest, IsOfItsDigest
<1> QED
  BY Invariance, DigestIsInvariant, <1>1, PTL
=============================================================================
