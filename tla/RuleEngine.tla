----------------------------- MODULE RuleEngine -----------------------------
(***************************************************************************)
(* engine.apply_rules and verdict.classify: the ruleset's matchers over a  *)
(* wheel's evidence, the findings they make, and the class of the wheel.   *)
(*                                                                         *)
(* Of a ruleset rs, beside what Suppression reads:                         *)
(*   verdict         of each rule, a class or "none";                      *)
(*   matches         of each rule, its match tables;                       *)
(*   libraryVerdict, crateVerdict, moduleVerdict, distVerdict: what an     *)
(*                   entry overrides it with, or "none";                   *)
(*   libraryOwner, moduleOwner, distRule: the rule that reports an entry;  *)
(*   limits          how many matches of a kind an object's record keeps.  *)
(* A match table has its kind and the keys the matcher of that kind reads, *)
(* each as the set of values it lets through.                              *)
(*                                                                         *)
(* rest is the evidence that Linkage does not read: what the metadata and  *)
(* Python layers left, and the errors of the archive and of those layers.  *)
(***************************************************************************)
EXTENDS Linkage, Suppression, Caps, Sequences

CONSTANTS WheelPath,       \* the path a finding about the wheel as a whole is located on
          GroupName,   \* the string_group with a library's banners, copies or forks
          Generator    \* the subject of a wheel_generator finding

When(condition, S) == IF condition THEN S ELSE {}

\* What a match reports: h.entry is the [[rust_crate]] a component resolved to.
Hit(rule, kind, subject, path, verdict) ==
  [rule |-> rule, kind |-> kind, subject |-> subject, path |-> path, verdict |-> verdict,
   entry |-> "none", by |-> {}]

\* Mutant: an entry that no rule owns is nobody's.
OwnsByName(owner, rule) == owner = rule

\* An entry that no rule owns is every rule's, but for a Python module's.
Owns(owner, rule) == owner \in {rule, "none"}

----------------------------------------------------------------------------
(* Matchers: metadata and errors.                                          *)

\* Mutant: the layers' errors, but not the archive's.
ErrorsOfLayers(ev, rest) ==
  rest.errors \cup {[kind |-> "unread", path |-> path] : path \in ev.errors}

\* Every error of the evidence.  A reader's and a member's are one kind here, and
\* so is all that the archive would not or could not read.
Errors(ev, rest) ==
  rest.errors
  \cup {[kind |-> "unread", path |-> path] : path \in ev.errors}
  \cup {[kind |-> skip[2], path |-> skip[1]] : skip \in ev.skipped}

ScanErrorHits(rule, m, ev, rest) ==
  {Hit(rule, "none", "none", e.path, "none") : e \in {x \in Errors(ev, rest) : x.kind \in m.errorKinds}}

\* The wheel's own distribution.
DistNameHits(rs, rule, rest) ==
  {Hit(rule, "distribution", d, rest.distInfo, rs.distVerdict[d]) :
     d \in {x \in rest.name : x \in DOMAIN rs.distRule /\ rs.distRule[x] = rule}}

\* Those it requires: a dependency edge (any_entry) is not the dependency's risk.
RequiresDistHits(rs, rule, m, rest) ==
  {Hit(rule, "distribution", d, rest.metadata, IF m.anyEntry THEN "none" ELSE rs.distVerdict[d]) :
     d \in {x \in rest.requires : x \in DOMAIN rs.distRule /\ (m.anyEntry \/ rs.distRule[x] = rule)}}

GeneratorHits(rule, rest) ==
  When(rest.generator, {Hit(rule, "generator", Generator, rest.wheelFile, "none")})

MismatchHits(rule, rest) == {Hit(rule, "none", "none", path, "none") : path \in rest.mismatched}

\* Python that none of it could be read, which is not Python there is none of.
NoSourceHits(rule, rest) ==
  When(rest.sources = "unread", {Hit(rule, "none", "none", WheelPath, "none")})

\* A cargo purl names the crate first.
TableOrder(tables, component) ==
  IF component.cargo /\ \E i \in DOMAIN tables : tables[i] = "rust_crate"
  THEN <<"rust_crate">> \o tables ELSE tables

\* Does the table have an entry of this name?
HasEntry(rs, table, name) ==
  \/ table = "crypto_library" /\ name \in Libraries
  \/ table = "rust_crate" /\ name \in RustCrates
  \/ table = "crypto_distribution" /\ name \in DOMAIN rs.distRule

EntryVerdict(rs, table, name) ==
  CASE table = "crypto_library" -> rs.libraryVerdict[name]
    [] table = "rust_crate" -> rs.crateVerdict[name]
    [] table = "crypto_distribution" -> rs.distVerdict[name]

\* _sbom_entry: the first table, in order, that has an entry.
SbomTables(rs, tables, component) ==
  LET order == TableOrder(tables, component)
      having == {i \in DOMAIN order : HasEntry(rs, order[i], component.name)}
  IN {order[i] : i \in {j \in having : \A k \in having : j <= k}}

ComponentHit(rs, rule, table, component, document) ==
  LET hit == Hit(rule, "component", component.name, document,
                 EntryVerdict(rs, table, component.name)) IN
  IF table # "rust_crate" THEN hit
  ELSE [hit EXCEPT !.entry = component.name,
                   !.by = {<<rule, other>> : other \in CrateSuppressors(rs, component.name)}]

SbomHits(rs, rule, m, ev, rest) ==
  UNION {{ComponentHit(rs, rule, table, c, rest.document) : table \in SbomTables(rs, m.tables, c)} :
           c \in ev.components}

----------------------------------------------------------------------------
(* Matchers: objects.                                                      *)

\* A vendored object that is the library.
BundledHits(rs, rule, m, ev) ==
  {Hit(rule, "library", o.base, o.path, rs.libraryVerdict[o.base]) :
     o \in {x \in ev.binaries : x.vendored /\ x.base \in m.libraries /\ Owns(rs.libraryOwner[x.base], rule)}}

\* Mutant: a name that is not a content hash is the system's.
EntryMatchesByName(m, e, o, ev) == e.lib \in m.libraries /\ e.mangled \in m.mangled

\* mangled = false asks for the posture too; resolved is the other side of it.
EntryMatches(m, e, o, ev) ==
  LET posture == NeededPosture(e, o, ev) IN
  /\ e.lib \in m.libraries /\ e.mangled \in m.mangled
  /\ m.mangled = {FALSE} => posture = "system"
  /\ (posture = "bundled" /\ ~e.mangled) \in m.resolved

\* The library's verdict goes with an entry that is not merely a link to the
\* system's.
NeededHits(rs, rule, m, ev) ==
  LET verdict(lib) == IF m.mangled = {TRUE} \/ m.resolved = {TRUE} THEN rs.libraryVerdict[lib]
                                                                   ELSE "none" IN
  UNION {{Hit(rule, "library", e.lib, o.path, verdict(e.lib)) :
            e \in {x \in o.needed : EntryMatches(m, x, o, ev)}} : o \in ev.binaries}

\* A library's symbol group goes by its name.
SymbolsOf(o, bindings) ==
  When("defined" \in bindings, o.defined) \cup When("imported" \in bindings, o.imported)

SymbolHits(rule, m, ev) ==
  UNION {{Hit(rule, "symbol_group", lib, o.path, "none") : lib \in SymbolsOf(o, m.bindings) \cap m.groups} :
           o \in ev.binaries}

\* The string groups an object has a match of.
StringGroups(o) ==
  {GroupName[<<"banner", lib>>] : lib \in o.banners \cup o.forkBanners}
  \cup {GroupName[<<"copy", lib>>] : lib \in o.copies}
  \cup {GroupName[<<"fork", lib>>] : lib \in o.forks}

StringHits(rule, m, ev) ==
  UNION {{Hit(rule, "string_group", group, o.path, "none") : group \in StringGroups(o) \cap m.groups} :
           o \in ev.binaries}

CrateHits(rs, rule, ev) ==
  UNION {{[Hit(rule, "crate", crate, o.path, rs.crateVerdict[crate]) EXCEPT
             !.by = EntrySuppressors(rs, crate)] :
            crate \in {c \in o.crates : Owns(rs.owner[c], rule)}} : o \in ev.binaries}

OpaqueHits(rule, ev) ==
  {Hit(rule, "none", "none", o.path, "none") : o \in {x \in ev.binaries : IsOpaque(x)}}

\* claims: the causes the table speaks for; unnamed: it speaks for a partial
\* read without one.
PartialHits(rule, m, ev) ==
  {Hit(rule, "format", "object", o.path, "none") :
     o \in {x \in ev.binaries : x.partial /\ (x.reasons \cap m.claims # {} \/ (x.reasons = {} /\ m.unnamed))}}

----------------------------------------------------------------------------
(* Matchers: linkage and Python.                                           *)

\* The library's value lets the match through, and so does what the SBOM says.
ValueMatches(m, lib, ev, linkage) ==
  /\ linkage[lib] \in m.values
  /\ m.declared # BOOLEAN => DeclaredBeside(lib, ev) \in m.declared

\* Mutant: object_values asks for every object.
LinkageHitsOfAll(rs, rule, m, ev, linkage) ==
  LET verdict(lib) == IF m.inherit THEN rs.libraryVerdict[lib] ELSE "none" IN
  {Hit(rule, "library", lib, WheelPath, verdict(lib)) :
     lib \in {l \in m.names \cap DOMAIN linkage :
                /\ ValueMatches(m, l, ev, linkage)
                /\ m.objects # {} => ObjectPostures(l, ev) \subseteq m.objects
                /\ ObjectPostures(l, ev) \cap m.unless = {}}}

\* object_values: a hit per object that reads one; exclude_object_values: none
\* if an object reads one; without either, the wheel's.
LinkageHits(rs, rule, m, ev, linkage) ==
  LET verdict(lib) == IF m.inherit THEN rs.libraryVerdict[lib] ELSE "none"
      matched == {lib \in m.names \cap DOMAIN linkage : ValueMatches(m, lib, ev, linkage)}
      at(lib) == IF m.objects # {}
                 THEN {o.path : o \in {x \in ev.binaries : BinaryPosture(x, lib, ev) \in m.objects}}
                 ELSE When(m.unless = {} \/ ObjectPostures(lib, ev) \cap m.unless = {}, {WheelPath})
  IN UNION {{Hit(rule, "library", lib, path, verdict(lib)) : path \in at(lib)} : lib \in matched}

\* An import: a module no rule owns is nobody's.
ImportHits(rs, rule, rest) ==
  {Hit(rule, "module", s.target, s.path, rs.moduleVerdict[s.target]) :
     s \in {x \in rest.sites : x.kind = "import" /\ x.target \in DOMAIN rs.moduleOwner
                               /\ rs.moduleOwner[x.target] = rule}}

\* Any other site, whose target stands for what the match filters on: the call
\* with its algorithm, the attribute with its value.  A call has no subject.
SiteHits(rule, m, rest) ==
  {Hit(rule, s.kind, IF s.kind = "call" THEN "none" ELSE s.target, s.path, "none") :
     s \in {x \in rest.sites : x.kind = m.site /\ x.target \in m.targets}}

TruncatedHits(rule, ev, max) ==
  When(Cardinality(ev.binaries) > max, {Hit(rule, "none", "none", WheelPath, "none")})

----------------------------------------------------------------------------
(* apply_rules and classify.                                               *)

MatchHits(rs, rule, m, ev, rest, linkage, max) ==
  CASE m.kind = "scan_error" -> ScanErrorHits(rule, m, ev, rest)
    [] m.kind = "dist_name" -> DistNameHits(rs, rule, rest)
    [] m.kind = "requires_dist" -> RequiresDistHits(rs, rule, m, rest)
    [] m.kind = "wheel_generator" -> GeneratorHits(rule, rest)
    [] m.kind = "record_mismatch" -> MismatchHits(rule, rest)
    [] m.kind = "no_source" -> NoSourceHits(rule, rest)
    [] m.kind = "sbom_component" -> SbomHits(rs, rule, m, ev, rest)
    [] m.kind = "bundled_library" -> BundledHits(rs, rule, m, ev)
    [] m.kind = "dt_needed" -> NeededHits(rs, rule, m, ev)
    [] m.kind = "dynamic_symbol" -> SymbolHits(rule, m, ev)
    [] m.kind = "binary_string" -> StringHits(rule, m, ev)
    [] m.kind = "rust_crate" -> CrateHits(rs, rule, ev)
    [] m.kind = "opaque_binary" -> OpaqueHits(rule, ev)
    [] m.kind = "partial_binary" -> PartialHits(rule, m, ev)
    [] m.kind = "binaries_truncated" -> TruncatedHits(rule, ev, max)
    [] m.kind = "linkage" -> LinkageHits(rs, rule, m, ev, linkage)
    [] m.kind = "py_import" -> ImportHits(rs, rule, rest)
    [] m.kind = "py_site" -> SiteHits(rule, m, rest)

\* Every hit, before any gives way.
Fired(rs, ev, rest, linkage, max) ==
  UNION {UNION {MatchHits(rs, rule, m, ev, rest, linkage, max) : m \in rs.matches[rule]} :
           rule \in Rules(rs)}

\* What a hit would have its finding say.
VerdictOf(rs, h) == IF h.verdict # "none" THEN h.verdict ELSE rs.verdict[h.rule]

\* One finding per rule and subject.  Its verdict is its first hit's; verdicts
\* has those of all its hits, of which any may have come first.
Findings(rs, hits) ==
  {[rule |-> k[1], subject |-> k[2],
    paths |-> {h.path : h \in {x \in hits : x.rule = k[1] /\ x.subject = k[2]}},
    verdicts |-> {VerdictOf(rs, h) : h \in {x \in hits : x.rule = k[1] /\ x.subject = k[2]}}] :
     k \in {<<h.rule, h.subject>> : h \in hits}}

\* classify: every class a finding has.  first: the verdict of a finding whose
\* hits disagree.
Classes(findings, first) ==
  LET fired == {IF f \in DOMAIN first THEN first[f] ELSE CHOOSE v \in f.verdicts : TRUE : f \in findings}
  IN IF fired \subseteq {"none"} THEN {"NO_CRYPTO_DETECTED"} ELSE fired \ {"none"}

Disagreeing(findings) == {f \in findings : Several(f.verdicts)}

----------------------------------------------------------------------------
(* What parse_ruleset refuses, beside what is in Coherent.                 *)

\* A match of any other kind is refused.
MatcherKinds ==
  {"scan_error", "dist_name", "requires_dist", "wheel_generator", "record_mismatch", "no_source",
   "sbom_component", "bundled_library", "dt_needed", "dynamic_symbol", "binary_string",
   "rust_crate", "opaque_binary", "partial_binary", "binaries_truncated", "linkage", "py_import",
   "py_site"}
KindsAreKnown(rs) == \A rule \in Rules(rs) : \A m \in rs.matches[rule] : m.kind \in MatcherKinds

\* Causes recorded without a verdict.
RoutineReasons(rs) ==
  UNION {UNION {m.claims : m \in {x \in rs.matches[rule] : x.kind = "partial_binary"}} :
           rule \in {r \in Rules(rs) : rs.verdict[r] = "none"}}

\* Mutant: asked of the libraries' own names only.
LinkageStaysExplainedByName(rs) ==
  \A lib \in Libraries \cap RustCrates : CrateSuppressors(rs, lib) = {}

\* No crate that an SBOM would move a library's linkage by gives way there.
LinkageStaysExplained(rs) ==
  \A lib \in Libraries : \A crate \in ({lib} \cup CratesOf[lib]) \cap RustCrates :
    CrateSuppressors(rs, crate) = {}

\* One of everything the ruleset can match has room in an object's record.
LimitsLeaveRoom(rs) ==
  /\ rs.limits.strings >= Cardinality({GroupName[g] : g \in DOMAIN GroupName})
  /\ rs.limits.symbols >= 2 * Cardinality(Libraries)
  /\ rs.limits.crates >= Cardinality(RustCrates)

\* No rule or entry has the class of a wheel in which nothing has one.
VerdictsAreFindings(rs) ==
  \A verdicts \in {rs.verdict, rs.libraryVerdict, rs.crateVerdict, rs.moduleVerdict, rs.distVerdict} :
    \A x \in DOMAIN verdicts : verdicts[x] # "NO_CRYPTO_DETECTED"

\* The rule that an entry names has a match that reads the entry.
RoutesAreRead(rs) ==
  LET reads(owner, kinds) ==
        \A x \in DOMAIN owner : owner[x] # "none" =>
          owner[x] \in Rules(rs) /\ \E m \in rs.matches[owner[x]] : m.kind \in kinds
  IN /\ reads(rs.owner, {"rust_crate"}) /\ reads(rs.libraryOwner, {"bundled_library"})
     /\ reads(rs.moduleOwner, {"py_import"}) /\ reads(rs.distRule, {"dist_name", "requires_dist"})

Accepted(rs) ==
  /\ KindsAreKnown(rs) /\ VerdictsAreFindings(rs) /\ RoutesAreRead(rs)
  /\ Coherent(rs) /\ LinkageStaysExplained(rs)
  /\ RoutineReasons(rs) \subseteq Routine /\ LimitsLeaveRoom(rs)
=============================================================================
